---- MODULE Spec2Model ----
(***************************************************************************)
(* TinyTerminal: the per-connection session state machine of src/server.js *)
(* (handleConnection and the handlers it registers), with the pure helpers *)
(* it calls.                                                               *)
(*                                                                         *)
(* A JavaScript string is modelled as a sequence of characters, each       *)
(* character being a one-character TLA+ string; the NUL character is the   *)
(* element "NUL".  Time is counted in units of 1000 ms.                    *)
(*                                                                         *)
(* Every external call a handler makes (ws.send, ws.close, pty.spawn,      *)
(* pty.write, pty.resize, pty.kill, clearTimeout, and the log call of a    *)
(* PTY callback's catch block) is recorded, in order,                      *)
(* in the variable calls, which holds the calls of the latest step only.   *)
(* Next to it, received holds the kind of payload that step delivered to   *)
(* the message handler, connectedCount counts the 'connected' envelopes of *)
(* each session, and silent counts the heartbeat intervals each open       *)
(* session has spent without a pong from its peer.                         *)
(***************************************************************************)
EXTENDS Integers, Sequences, FiniteSets, TLC

\* ------------------------------------------------------------------ bounds
\* Number of WebSocket objects offered to the server in SpecAdmission.
NumConns == 4
\* The clock stops advancing at MaxTime.
MaxTime == 6
\* Cumulative counters saturate at CountCap.
CountCap == 2
\* validateInput is called on every string of up to MaxShort characters.
MaxShort == 3
\* In SpecHeartbeat the clock stops after MaxIntervals heartbeat intervals.
MaxIntervals == 4
\* The browser client creates at most MaxSockets WebSocket objects.
MaxSockets == 4
\* Of the messages sent through a socket the first MaxSent are recorded.
MaxSent == 3

\* ------------------------------------------------------- program constants
MAX_CONNECTIONS == 3
MAX_INPUT_LENGTH == 10000
\* setTimeout(..., 5000): 5 time units of 1000 ms.
AUTH_TIMEOUT == 5
MAX_COLS == 500
MAX_ROWS == 200
DEFAULT_COLS == 80
DEFAULT_ROWS == 24
CLOSE_UNAUTHORIZED == 4001
\* public/client.js
MAX_RECONNECT_ATTEMPTS == 5

\* ------------------------------------------------- constants of the tests
\* tests/server.test.js imports HEARTBEAT_INTERVAL and MAX_MISSED_PONGS from
\* src/constants.js, which defines neither; the tests advance the clock by
\* 30000 ms per interval and count two missed pongs before the drop.
HEARTBEAT_INTERVAL == 30
MAX_MISSED_PONGS == 2

\* ------------------------------------------------------------ JSON values
\* A JSON value after JSON.parse, or undefined for an absent property.
\* Numbers are kept in tenths (n10 = 10 * value) so that 80.5 is 805.
Undefined == [t |-> "undefined", n10 |-> 0, s |-> <<>>]
JNull == [t |-> "null", n10 |-> 0, s |-> <<>>]
JNum(n10) == [t |-> "number", n10 |-> n10, s |-> <<>>]
JInt(n) == JNum(10 * n)
JStr(str) == [t |-> "string", n10 |-> 0, s |-> str]
NaN == [t |-> "NaN", n10 |-> 0, s |-> <<>>]

Digits == <<"0", "1", "2", "3", "4", "5", "6", "7", "8", "9">>
IsDigit(ch) == \E i \in 1..10 : Digits[i] = ch
DigitVal(ch) == (CHOOSE i \in 1..10 : Digits[i] = ch) - 1

\* Length of the longest prefix of str made of decimal digits.
RECURSIVE DigitPrefixLen(_)
DigitPrefixLen(str) ==
  IF str = <<>> \/ ~IsDigit(Head(str)) THEN 0 ELSE 1 + DigitPrefixLen(Tail(str))

\* Value of a sequence of decimal digits.
RECURSIVE DigitsValue(_)
DigitsValue(str) ==
  IF str = <<>> THEN 0
  ELSE 10 * DigitsValue(SubSeq(str, 1, Len(str) - 1)) + DigitVal(str[Len(str)])

\* Number(x) of server.js:427-428, for the value kinds of this model: a
\* number is itself, undefined is NaN, null is 0, a string of decimal
\* digits is its value, the empty string is 0, any other string is NaN.
Number(x) ==
  CASE x.t = "number" -> x
    [] x.t = "null" -> JInt(0)
    [] x.t = "string" ->
         IF DigitPrefixLen(x.s) = Len(x.s) THEN JInt(DigitsValue(x.s)) ELSE NaN
    [] OTHER -> NaN

\* Number.isInteger
IsInteger(x) == x.t = "number" /\ x.n10 % 10 = 0

\* ----------------------------------------------------------- pure helpers
\* A mutant of validateInput: the length limit is off by one.
validateInput_offByOne(input) ==
  /\ ~(input.t # "string" \/ Len(input.s) = 0)
  /\ ~(Len(input.s) >= MAX_INPUT_LENGTH)
  /\ ~(\E i \in 1..Len(input.s) : input.s[i] = "NUL")

\* validateInput (server.js:80-92): TRUE iff the function returns without
\* throwing.
validateInput(input) ==
  /\ ~(input.t # "string" \/ Len(input.s) = 0)
  /\ ~(Len(input.s) > MAX_INPUT_LENGTH)
  /\ ~(\E i \in 1..Len(input.s) : input.s[i] = "NUL")

\* Buffer.alloc(maxLen) followed by buf.copy(padded): buf, then zero bytes.
\* Characters of the model are single bytes; the zero byte is "NUL".
PadBuffer(buf, maxLen) ==
  [i \in 1..maxLen |-> IF i <= Len(buf) THEN buf[i] ELSE "NUL"]

Max(a, b) == IF a >= b THEN a ELSE b

\* crypto.timingSafeEqual on two buffers of equal length: bytewise equality.
timingSafeEqual(bufA, bufB) ==
  \A i \in 1..Len(bufA) : bufA[i] = bufB[i]

\* A mutant of secureTokenCompare: reports a mismatch for every pair.
secureTokenCompare_never(a, b) == FALSE

\* secureTokenCompare (server.js:243-264).
secureTokenCompare(a, b) ==
  IF a.t # "string" \/ b.t # "string" THEN FALSE
  ELSE IF Len(a.s) # Len(b.s)
       THEN LET maxLen == Max(Len(a.s), Len(b.s))
            IN timingSafeEqual(PadBuffer(a.s, maxLen), PadBuffer(b.s, maxLen))
       ELSE timingSafeEqual(a.s, b.s)

\* The buffer operations one call secureTokenCompare(a, b) executes
\* (server.js:244-263), in order, each with the number of bytes it works
\* on: none when an argument is not a string; otherwise the two
\* Buffer.from, then either the allocation and filling of the two padded
\* buffers and their comparison, or the comparison of the two buffers.
Op(name, size) == [op |-> name, size |-> size]
secureTokenCompareOps(a, b) ==
  IF a.t # "string" \/ b.t # "string" THEN <<>>
  ELSE <<Op("Buffer.from", Len(a.s)), Op("Buffer.from", Len(b.s))>>
       \o (IF Len(a.s) # Len(b.s)
           THEN LET maxLen == Max(Len(a.s), Len(b.s))
                IN <<Op("Buffer.alloc", maxLen), Op("Buffer.alloc", maxLen),
                     Op("copy", Len(a.s)), Op("copy", Len(b.s)),
                     Op("crypto.timingSafeEqual", maxLen)>>
           ELSE <<Op("crypto.timingSafeEqual", Len(a.s))>>)

\* String.prototype.split('.'): the parts between the dots.
RECURSIVE Split(_)
Split(str) ==
  IF \A i \in 1..Len(str) : str[i] # "."
  THEN <<str>>
  ELSE LET k == CHOOSE i \in 1..Len(str) :
                  str[i] = "." /\ \A j \in 1..(i - 1) : str[j] # "."
       IN <<SubSeq(str, 1, k - 1)>> \o Split(SubSeq(str, k + 1, Len(str)))

\* parseInt(str, 10): an optional sign, then the longest prefix of decimal
\* digits; NaN when there is none.  (Leading white space, which parseInt
\* skips, does not occur in the host names of this model.)
parseInt(str) ==
  LET signed == str # <<>> /\ Head(str) \in {"+", "-"}
      body == IF signed THEN Tail(str) ELSE str
      k == DigitPrefixLen(body)
      v == DigitsValue(SubSeq(body, 1, k))
  IN IF k = 0 THEN NaN
     ELSE IF signed /\ Head(str) = "-" THEN JInt(0 - v) ELSE JInt(v)

\* isTailscaleIP (server.js:188-197).  A comparison with NaN is false.
isTailscaleIP(hostname) ==
  LET parts == Split(hostname)
  IN IF Len(parts) # 4 THEN FALSE
     ELSE LET first == parseInt(parts[1])
              second == parseInt(parts[2])
          IN /\ first.t = "number" /\ first.n10 = 10 * 100
             /\ second.t = "number"
             /\ second.n10 >= 10 * 64 /\ second.n10 <= 10 * 127

\* An Origin header: absent, or a string that new URL() either rejects
\* (kind "malformed") or parses into a URL with the given hostname.
NoOrigin == [kind |-> "undefined", hostname |-> <<>>]
MalformedOrigin == [kind |-> "malformed", hostname |-> <<>>]
UrlOrigin(hostname) == [kind |-> "url", hostname |-> hostname]

\* isAllowedOrigin (server.js:205-223).
isAllowedOrigin(origin) ==
  IF origin.kind = "undefined" THEN TRUE
  ELSE IF origin.kind = "malformed" THEN FALSE
  ELSE \/ origin.hostname = <<"l", "o", "c", "a", "l", "h", "o", "s", "t">>
       \/ origin.hostname = <<"1", "2", "7", ".", "0", ".", "0", ".", "1">>
       \/ isTailscaleIP(origin.hostname)

\* SAFE_ENV_KEYS (constants.js:19-30).
SAFE_ENV_KEYS ==
  {"HOME", "USER", "SHELL", "TERM", "PATH", "LANG", "LC_ALL", "LC_CTYPE", "COLORTERM"}

\* The value 'xterm-256color' of server.js:283.
XTERM_256COLOR == JStr(<<"x", "t", "e", "r", "m", "-", "2", "5", "6", "c", "o", "l", "o", "r">>)

\* if (process.env[key]): an unset variable is undefined, and the empty
\* string is falsy too.
Truthy(x) == x.t = "string" /\ Len(x.s) > 0

\* A mutant of safeEnv: the whole host environment is forwarded.
safeEnv_forwardAll(processEnv) ==
  [key \in {k \in DOMAIN processEnv : Truthy(processEnv[k])} \cup {"TERM"} |->
     IF key = "TERM" THEN XTERM_256COLOR ELSE processEnv[key]]

\* The object safeEnv that createPTY builds from process.env and passes
\* to pty.spawn as the env option (server.js:277-283, 290).
safeEnv(processEnv) ==
  [key \in {k \in SAFE_ENV_KEYS : Truthy(processEnv[k])} \cup {"TERM"} |->
     IF key = "TERM" THEN XTERM_256COLOR ELSE processEnv[key]]

\* ------------------------------------------------------------------ state
VARIABLES
  AUTH_TOKEN,         \* process.env.TINYTERMINAL_TOKEN, fixed for the run
  activeConnections,  \* the module-level counter
  now,                \* the clock, in time units
  wsState,            \* per WebSocket: "idle", "open", "closing", "closed"
  closeCalls,         \* per WebSocket: the (code, reason) pairs passed to ws.close
  remoteAddress,      \* per WebSocket: req.socket.remoteAddress
  session,            \* per WebSocket: "none", "live" (handlers registered), "destroyed"
  authenticated,      \* closure variable of handleConnection
  authTimeout,        \* closure variable: "null" or "timer"
  timer,              \* the timer object behind authTimeout
  ptyProcess,         \* closure variable: "null" or "pty"
  ptyState,           \* the PTY object behind ptyProcess
  spawnCalls,         \* per session: invocations of pty.spawn, saturating
  ptyCreated,         \* per session: invocations of pty.spawn that returned, saturating
  calls,              \* the external calls made by the latest step, in order
  received,           \* the kind of payload the latest step delivered to the message handler
  connectedCount,     \* per WebSocket: 'connected' envelopes sent so far, saturating
  silent,             \* per WebSocket: heartbeat intervals elapsed since the last pong
  pureCall,           \* a direct call of an exported pure function, and its outcome
  client              \* the browser client (public/client.js): its variables and sockets

vars == <<AUTH_TOKEN, activeConnections, now, wsState, closeCalls,
          remoteAddress, session, authenticated, authTimeout, timer,
          ptyProcess, ptyState, spawnCalls, ptyCreated, calls, received,
          connectedCount, silent, pureCall, client>>

\* The closure variables and objects of the sessions.
sessionVars == <<authenticated, authTimeout, timer, ptyProcess, ptyState,
                 spawnCalls, ptyCreated>>
\* The WebSocket objects.
wsVars == <<wsState, closeCalls, remoteAddress, session>>
\* What no handler writes.
envVars == <<AUTH_TOKEN, now, silent, pureCall, client>>

\* The server: everything but pureCall and client.
programVars == <<AUTH_TOKEN, activeConnections, now, wsVars, sessionVars, calls,
                 received, connectedCount, silent>>

\* The WebSocket objects of SpecAdmission, and the one of Spec.
Conns == 1..NumConns
OneConn == {1}

Sat(n) == IF n < CountCap THEN n + 1 ELSE n

\* ---------------------------------------------------------- external calls
Call(api, c, kind, n1, n2, text, data) ==
  [api |-> api, conn |-> c, kind |-> kind, n1 |-> n1, n2 |-> n2,
   text |-> text, data |-> data]

SendConnected(c, text) == Call("ws.send", c, "connected", 0, 0, text, <<>>)
SendOutput(c, data) == Call("ws.send", c, "output", 0, 0, "", data)
SendExit(c, code) == Call("ws.send", c, "exit", code, 0, "", <<>>)
SendError(c) == Call("ws.send", c, "error", 0, 0, "Failed to process request", <<>>)
WsClose(c, code, reason) == Call("ws.close", c, "", code, 0, reason, <<>>)
PtySpawn(c, cols, rows, result) == Call("pty.spawn", c, result, cols, rows, "", <<>>)
PtyWrite(c, data) == Call("pty.write", c, "", 0, 0, "", data)
PtyResize(c, cols, rows) == Call("pty.resize", c, "", cols, rows, "", <<>>)
PtyKill(c) == Call("pty.kill", c, "", 0, 0, "", <<>>)
ClearTimeout(c) == Call("clearTimeout", c, "", 0, 0, "", <<>>)
\* log(...) in the catch block of a PTY callback.
Log(c, text) == Call("log", c, "", 0, 0, text, <<>>)
\* An exception leaves the callback that was running.
Throw(c) == Call("throw", c, "", 0, 0, "", <<>>)

\* ws.close(code, reason) on the WebSocket object: an open socket starts
\* closing; the pair is remembered.  ws.close() passes no code: code 0.
CloseWs(c, code, reason) ==
  /\ wsState' = [wsState EXCEPT ![c] = IF @ = "open" THEN "closing" ELSE @]
  /\ closeCalls' = [closeCalls EXCEPT ![c] = @ \cup {<<code, reason>>}]

\* clearTimeout on the timer object: a pending timer is cancelled.
Cleared(t) == IF t.state = "armed" THEN [t EXCEPT !.state = "cleared"] ELSE t

NoTimer == [state |-> "none", due |-> 0]
NoPty == [state |-> "none", cols |-> 0, rows |-> 0, killed |-> FALSE]

\* The kind of a payload delivered to the message handler: how JSON.parse
\* fared on it and the type it carries.  NoMessage: nothing was delivered.
Kind(m) == [parse |-> m.parse, type |-> m.type]
NoMessage == [parse |-> "none", type |-> "none"]

Min(a, b) == IF a <= b THEN a ELSE b

\* The number of 'connected' envelopes sent to c among the calls cs.
ConnectedIn(cs, c) ==
  Cardinality({i \in 1..Len(cs) :
                 cs[i].api = "ws.send" /\ cs[i].kind = "connected" /\ cs[i].conn = c})

\* What a step leaves for observation besides its calls: the kind of the
\* payload it delivered, and the running count of 'connected' envelopes.
Observed(kind) ==
  /\ received' = kind
  /\ connectedCount' =
       [c \in Conns |-> Min(CountCap, connectedCount[c] + ConnectedIn(calls', c))]

\* No exported function has been called directly.
NoPureCall == [fn |-> "none", args |-> <<>>, outcome |-> "none", result |-> Undefined]

\* The exported function fn is about to be called on args.
PendingCall(fn, args) ==
  [fn |-> fn, args |-> args, outcome |-> "pending", result |-> Undefined]

\* A mutant of TokenRequired: a secret is taken to be configured always.
TokenRequired_always == TRUE

\* !AUTH_TOKEN is false exactly for a non-empty string.
TokenRequired == AUTH_TOKEN.t = "string" /\ Len(AUTH_TOKEN.s) > 0

\* The browser client before public/client.js has run: no socket.  The
\* fields are the script's variables ws (0 for null, else the number of a
\* socket), reconnectAttempts and isReconnecting; the WebSocket objects it
\* has created, each with its readyState and the types of the first
\* MaxSent messages sent through it, in order; the pending
\* setTimeout(connect, delay) timers; document.hidden; and whether the
\* page's URL carries a token ("present"), never did ("absent"), or did
\* until the client removed it ("removed").
NoClient ==
  [ws |-> 0, reconnectAttempts |-> 0, isReconnecting |-> FALSE,
   sockets |-> <<>>, timers |-> 0, hidden |-> FALSE, urlToken |-> "absent"]

\* ------------------------------------------------------------------- Init
Secret == JStr(<<"a", "b">>)
TokenConfigs == {Undefined, Secret}

InitSessions ==
  /\ AUTH_TOKEN \in TokenConfigs
  /\ activeConnections = 0
  /\ now = 0
  /\ wsState = [c \in Conns |-> "idle"]
  /\ closeCalls = [c \in Conns |-> {}]
  /\ remoteAddress = [c \in Conns |-> "none"]
  /\ session = [c \in Conns |-> "none"]
  /\ authenticated = [c \in Conns |-> FALSE]
  /\ authTimeout = [c \in Conns |-> "null"]
  /\ timer = [c \in Conns |-> NoTimer]
  /\ ptyProcess = [c \in Conns |-> "null"]
  /\ ptyState = [c \in Conns |-> NoPty]
  /\ spawnCalls = [c \in Conns |-> 0]
  /\ ptyCreated = [c \in Conns |-> 0]
  /\ calls = <<>>
  /\ received = NoMessage
  /\ connectedCount = [c \in Conns |-> 0]
  /\ silent = [c \in Conns |-> 0]

Init == InitSessions /\ pureCall = NoPureCall /\ client = NoClient

\* ---------------------------------------------------------- handleConnection
\* A mutant of AtConnectionLimit: the comparison is off by one.
AtConnectionLimit_offByOne == activeConnections > MAX_CONNECTIONS

\* server.js:309: activeConnections >= MAX_CONNECTIONS
AtConnectionLimit == activeConnections >= MAX_CONNECTIONS

\* A mutant of InitiallyAuthenticated: every session starts authenticated.
InitiallyAuthenticated_always == TRUE

\* server.js:320: let authenticated = !AUTH_TOKEN
InitiallyAuthenticated == ~TokenRequired

\* handleConnection(ws, req), server.js:299-489, for the WebSocket object c:
\* the origin check, the connection limit, the session's closure state, the
\* auth deadline timer, the registration of the handlers and the initial
\* 'connected' envelope.
Connect(c, origin, addr) ==
  /\ wsState[c] = "idle"
  /\ remoteAddress' = [remoteAddress EXCEPT ![c] = addr]
  /\ IF ~isAllowedOrigin(origin) \/ AtConnectionLimit
     THEN /\ wsState' = [wsState EXCEPT ![c] = "closing"]
          /\ closeCalls' = [closeCalls EXCEPT ![c] = @ \cup {<<0, "">>}]
          /\ calls' = <<WsClose(c, 0, "")>>
          /\ UNCHANGED <<activeConnections, session, sessionVars>>
     ELSE /\ activeConnections' = activeConnections + 1
          /\ wsState' = [wsState EXCEPT ![c] = "open"]
          /\ session' = [session EXCEPT ![c] = "live"]
          /\ authenticated' = [authenticated EXCEPT ![c] = InitiallyAuthenticated]
          /\ ptyProcess' = [ptyProcess EXCEPT ![c] = "null"]
          /\ IF TokenRequired
             THEN /\ authTimeout' = [authTimeout EXCEPT ![c] = "timer"]
                  /\ timer' = [timer EXCEPT ![c] =
                                 [state |-> "armed", due |-> now + AUTH_TIMEOUT]]
                  /\ calls' = <<>>
             ELSE /\ authTimeout' = [authTimeout EXCEPT ![c] = "null"]
                  /\ timer' = timer
                  /\ calls' = <<SendConnected(c, "PTY initialized")>>
          /\ UNCHANGED <<closeCalls, ptyState, spawnCalls, ptyCreated>>
  /\ Observed(NoMessage)
  /\ UNCHANGED envVars

\* A mutant of TimeoutCloses: the test of the flag is inverted.
TimeoutCloses_inverted(c) == authenticated[c]

\* server.js:327: if (!authenticated)
TimeoutCloses(c) == ~authenticated[c]

\* The callback of the auth deadline timer, server.js:326-331.  The timer
\* fires when its delay has elapsed.
AuthTimeoutFire(c) ==
  /\ timer[c].state = "armed"
  /\ timer[c].due <= now
  /\ timer' = [timer EXCEPT ![c].state = "fired"]
  /\ IF TimeoutCloses(c)
     THEN /\ CloseWs(c, CLOSE_UNAUTHORIZED, "Authentication timeout")
          /\ calls' = <<WsClose(c, CLOSE_UNAUTHORIZED, "Authentication timeout")>>
     ELSE /\ calls' = <<>>
          /\ UNCHANGED <<wsState, closeCalls>>
  /\ Observed(NoMessage)
  /\ UNCHANGED <<activeConnections, remoteAddress, session, authenticated,
                 authTimeout, ptyProcess, ptyState, spawnCalls, ptyCreated,
                 envVars>>

\* One time unit passes.  A timer whose delay has elapsed fires before the
\* clock moves on.
Tick ==
  /\ now < MaxTime
  /\ \A c \in Conns : timer[c].state = "armed" => timer[c].due > now
  /\ now' = now + 1
  /\ calls' = <<>>
  /\ Observed(NoMessage)
  /\ UNCHANGED <<AUTH_TOKEN, activeConnections, wsVars, sessionVars, silent,
                 pureCall, client>>

\* The events of the WebSocket for which handleConnection has registered a
\* listener, server.js:377, 463, 476.
Listeners(c) ==
  IF session[c] = "none" THEN {} ELSE {"message", "close", "error"}

\* The WebSocket emits 'pong': the peer has answered a ping frame.  With no
\* listener registered for the event nothing runs.
Pong(c) ==
  /\ session[c] = "live"
  /\ wsState[c] = "open"
  /\ silent' = [silent EXCEPT ![c] = 0]
  /\ calls' = <<>>
  /\ Observed(NoMessage)
  /\ UNCHANGED <<AUTH_TOKEN, activeConnections, now, wsVars, sessionVars, pureCall,
                 client>>

\* One heartbeat interval passes during which the peer of no open session
\* is heard of.  handleConnection sets no timer but the auth deadline, so
\* with none pending no callback runs.
Elapse ==
  /\ now + HEARTBEAT_INTERVAL <= MaxIntervals * HEARTBEAT_INTERVAL
  /\ \A c \in Conns : timer[c].state # "armed"
  /\ now' = now + HEARTBEAT_INTERVAL
  /\ silent' = [c \in Conns |->
                  IF session[c] = "live" /\ wsState[c] = "open"
                  THEN silent[c] + 1 ELSE silent[c]]
  /\ calls' = <<>>
  /\ Observed(NoMessage)
  /\ UNCHANGED <<AUTH_TOKEN, activeConnections, wsVars, sessionVars, pureCall,
                 client>>

\* A mutant of SlotReleased: the count is left as it was.
SlotReleased_never(n) == n

\* server.js:467: activeConnections--
SlotReleased(n) == n - 1

\* A mutant of CloseEvent: the PTY is left running and its handle kept.
CloseEvent_noKill(c) ==
  /\ wsState[c] \in {"open", "closing"}
  /\ wsState' = [wsState EXCEPT ![c] = "closed"]
  /\ IF session[c] = "live"
     THEN /\ session' = [session EXCEPT ![c] = "destroyed"]
          /\ timer' = [timer EXCEPT ![c] =
                         IF authTimeout[c] # "null" THEN Cleared(@) ELSE @]
          /\ activeConnections' = SlotReleased(activeConnections)
          /\ calls' = (IF authTimeout[c] # "null" THEN <<ClearTimeout(c)>> ELSE <<>>)
          /\ UNCHANGED <<ptyProcess, ptyState>>
     ELSE /\ calls' = <<>>
          /\ UNCHANGED <<session, timer, activeConnections, ptyProcess, ptyState>>
  /\ Observed(NoMessage)
  /\ UNCHANGED <<closeCalls, remoteAddress, authenticated, authTimeout,
                 spawnCalls, ptyCreated, envVars>>

\* The 'close' handler, server.js:463-473, run when the WebSocket's close
\* event is emitted (the client went away, or a close the server requested
\* has completed).  A WebSocket rejected by handleConnection has no handler.
CloseEvent(c) ==
  /\ wsState[c] \in {"open", "closing"}
  /\ wsState' = [wsState EXCEPT ![c] = "closed"]
  /\ IF session[c] = "live"
     THEN /\ session' = [session EXCEPT ![c] = "destroyed"]
          /\ timer' = [timer EXCEPT ![c] =
                         IF authTimeout[c] # "null" THEN Cleared(@) ELSE @]
          /\ activeConnections' = SlotReleased(activeConnections)
          /\ ptyProcess' = [ptyProcess EXCEPT ![c] = "null"]
          /\ ptyState' = [ptyState EXCEPT ![c] =
                            IF ptyProcess[c] # "null"
                            THEN [@ EXCEPT !.killed = TRUE] ELSE @]
          /\ calls' = (IF authTimeout[c] # "null" THEN <<ClearTimeout(c)>> ELSE <<>>)
                      \o (IF ptyProcess[c] # "null" THEN <<PtyKill(c)>> ELSE <<>>)
     ELSE /\ calls' = <<>>
          /\ UNCHANGED <<session, timer, activeConnections, ptyProcess, ptyState>>
  /\ Observed(NoMessage)
  /\ UNCHANGED <<closeCalls, remoteAddress, authenticated, authTimeout,
                 spawnCalls, ptyCreated, envVars>>

\* A mutant of PtyData: the data is replaced, and a failure of ws.send is
\* not caught.
PtyData_uncaught(c, data, sendOk) ==
  /\ ptyState[c].state = "running"
  /\ sendOk \/ wsState[c] # "open"
  /\ calls' = <<SendOutput(c, <<>>)>> \o (IF sendOk THEN <<>> ELSE <<Throw(c)>>)
  /\ Observed(NoMessage)
  /\ UNCHANGED <<activeConnections, wsVars, sessionVars, envVars>>

\* The onData callback registered by setupPTY, server.js:344-355: the PTY
\* emits data while its process runs.
\* ws.send throws only on a WebSocket that is no longer open; sendOk tells
\* whether the call returned.
PtyData(c, data, sendOk) ==
  /\ ptyState[c].state = "running"
  /\ sendOk \/ wsState[c] # "open"
  /\ calls' = <<SendOutput(c, data)>>
                \o (IF sendOk THEN <<>> ELSE <<Log(c, "Error sending PTY output")>>)
  /\ Observed(NoMessage)
  /\ UNCHANGED <<activeConnections, wsVars, sessionVars, envVars>>

\* The onExit callback registered by setupPTY, server.js:358-370.
PtyExit(c, exitCode, sendOk) ==
  /\ ptyState[c].state = "running"
  /\ sendOk \/ wsState[c] # "open"
  /\ ptyState' = [ptyState EXCEPT ![c].state = "exited"]
  /\ calls' = <<SendExit(c, exitCode)>>
                \o (IF sendOk THEN <<>>
                    ELSE <<Log(c, "Error sending PTY exit notification")>>)
  /\ Observed(NoMessage)
  /\ UNCHANGED <<activeConnections, wsVars, authenticated, authTimeout, timer,
                 ptyProcess, spawnCalls, ptyCreated, envVars>>

\* A direct call validateInput(input) of the exported function, as the
\* unit tests make it: it returns, or it throws.
ValidateInputCall ==
  /\ pureCall.fn = "validateInput"
  /\ pureCall.outcome = "pending"
  /\ pureCall' = [pureCall EXCEPT !.outcome =
                    IF validateInput(pureCall.args[1]) THEN "returns" ELSE "throws"]
  /\ UNCHANGED <<programVars, client>>

\* A direct call secureTokenCompare(a, b) of the exported function;
\* result holds the buffer operations the call has executed.
SecureTokenCompareCall ==
  /\ pureCall.fn = "secureTokenCompare"
  /\ pureCall.outcome = "pending"
  /\ pureCall' = [pureCall EXCEPT
                    !.outcome =
                      IF secureTokenCompare(pureCall.args[1], pureCall.args[2])
                      THEN "true" ELSE "false",
                    !.result =
                      secureTokenCompareOps(pureCall.args[1], pureCall.args[2])]
  /\ UNCHANGED <<programVars, client>>

\* A direct call isTailscaleIP(hostname) of the exported function.
IsTailscaleIPCall ==
  /\ pureCall.fn = "isTailscaleIP"
  /\ pureCall.outcome = "pending"
  /\ pureCall' = [pureCall EXCEPT !.outcome =
                    IF isTailscaleIP(pureCall.args[1]) THEN "true" ELSE "false"]
  /\ UNCHANGED <<programVars, client>>

\* A direct call createPTY() of the exported function in a process whose
\* environment is args[1] (server.js:273-292): result is the env option
\* the call hands to pty.spawn, which returns a process or throws.
CreatePTYCall(spawnOk) ==
  /\ pureCall.fn = "createPTY"
  /\ pureCall.outcome = "pending"
  /\ pureCall' = [pureCall EXCEPT
                    !.outcome = IF spawnOk THEN "returns" ELSE "throws",
                    !.result = safeEnv(pureCall.args[1])]
  /\ UNCHANGED <<programVars, client>>

\* ------------------------------------------------------ the browser client
\* new WebSocket(wsUrl)
NewSocket == [readyState |-> "CONNECTING", sent |-> <<>>]

\* connect(), client.js (SPEC.md:435-445): skipped while isReconnecting is
\* set; otherwise sets it and assigns a new WebSocket to ws.
connect(cl) ==
  IF cl.isReconnecting THEN cl
  ELSE [cl EXCEPT !.isReconnecting = TRUE,
                  !.sockets = Append(@, NewSocket),
                  !.ws = Len(cl.sockets) + 1]

\* A message of the given type goes out through the socket ws, which is
\* OPEN.
Sent(cl, type) ==
  [cl EXCEPT !.sockets[cl.ws].sent =
               IF Len(@) < MaxSent THEN Append(@, type) ELSE @]

\* sendResize (SPEC.md:539-551): nothing unless ws is set and OPEN.
sendResize(cl) ==
  IF cl.ws = 0 \/ cl.sockets[cl.ws].readyState # "OPEN" THEN cl
  ELSE Sent(cl, "resize")

\* handleResize (SPEC.md:734-752): fits the terminal, then sendResize.
handleResize(cl) == sendResize(cl)

\* ws.onopen (SPEC.md:447-472).  The handler uses the variable ws, not the
\* socket that opened: ws.send throws on a socket that is CONNECTING, which
\* ends the handler, and is dropped by one that is CLOSED.
onopen(cl) ==
  LET c1 == [cl EXCEPT !.reconnectAttempts = 0, !.isReconnecting = FALSE]
  IN IF c1.urlToken = "present"
     THEN IF c1.sockets[c1.ws].readyState = "CONNECTING" THEN c1
          ELSE handleResize(
                 [(IF c1.sockets[c1.ws].readyState = "OPEN"
                   THEN Sent(c1, "auth") ELSE c1) EXCEPT !.urlToken = "removed"])
     ELSE handleResize(c1)

\* ws.onclose (SPEC.md:495-509).
onclose(cl) ==
  LET c1 == [cl EXCEPT !.isReconnecting = FALSE]
  IN IF c1.reconnectAttempts < MAX_RECONNECT_ATTEMPTS
     THEN [c1 EXCEPT !.reconnectAttempts = @ + 1, !.timers = @ + 1]
     ELSE c1

\* connect() may create a socket only while fewer than MaxSockets exist.
CanConnect(cl) == cl.isReconnecting \/ Len(cl.sockets) < MaxSockets

\* The connection of socket k is established: the socket is OPEN and its
\* onopen handler runs.
SocketOpens(k) ==
  /\ k \in 1..Len(client.sockets)
  /\ client.sockets[k].readyState = "CONNECTING"
  /\ client' = onopen([client EXCEPT !.sockets[k].readyState = "OPEN"])
  /\ UNCHANGED <<programVars, pureCall>>

\* The connection of socket k fails or is lost: the socket is CLOSED and
\* its onclose handler runs.
SocketCloses(k) ==
  /\ k \in 1..Len(client.sockets)
  /\ client.sockets[k].readyState \in {"CONNECTING", "OPEN"}
  /\ client' = onclose([client EXCEPT !.sockets[k].readyState = "CLOSED"])
  /\ UNCHANGED <<programVars, pureCall>>

\* A timer set by setTimeout(connect, delay) (SPEC.md:505) fires.
ReconnectTimer ==
  /\ client.timers > 0
  /\ CanConnect(client)
  /\ client' = connect([client EXCEPT !.timers = @ - 1])
  /\ UNCHANGED <<programVars, pureCall>>

\* The visibilitychange handler (SPEC.md:808-814), the page becoming
\* hidden or visible.
VisibilityChange(hidden) ==
  /\ client.sockets # <<>>
  /\ hidden # client.hidden
  /\ CanConnect(client)
  /\ client' =
       LET c1 == [client EXCEPT !.hidden = hidden]
       IN IF ~hidden /\ (c1.ws = 0 \/ c1.sockets[c1.ws].readyState # "OPEN")
          THEN connect([c1 EXCEPT !.reconnectAttempts = 0])
          ELSE c1
  /\ UNCHANGED <<programVars, pureCall>>

\* A resize or orientationchange event of the window, or the fallback
\* timer of SPEC.md:803-805: handleResize runs.
WindowResize ==
  /\ client.sockets # <<>>
  /\ client' = handleResize(client)
  /\ UNCHANGED <<programVars, pureCall>>

\* ------------------------------------------------------ the message handler
\* An inbound payload: one JSON.parse rejects (parse "fail"), the JSON text
\* null (parse "null", on which reading .type throws a TypeError), or an
\* object with the properties type, token, data, cols and rows (absent
\* properties are Undefined; an absent or unknown type is "other").
Msg(type, token, data, cols, rows) ==
  [parse |-> "object", type |-> type, token |-> token, data |-> data,
   cols |-> cols, rows |-> rows]
Unparseable ==
  [parse |-> "fail", type |-> "other", token |-> Undefined, data |-> Undefined,
   cols |-> Undefined, rows |-> Undefined]
NullPayload ==
  [parse |-> "null", type |-> "other", token |-> Undefined, data |-> Undefined,
   cols |-> Undefined, rows |-> Undefined]
AuthMsg(token) == Msg("auth", token, Undefined, Undefined, Undefined)
InputMsg(data) == Msg("input", Undefined, data, Undefined, Undefined)
ResizeMsg(cols, rows) == Msg("resize", Undefined, Undefined, cols, rows)
UnknownMsg == Msg("other", Undefined, Undefined, Undefined, Undefined)

\* What the message handler may write besides calls.
handlerVars == <<wsState, closeCalls, authenticated, timer, ptyProcess,
                 ptyState, spawnCalls, ptyCreated>>

\* A return that does nothing more.
Return(cs) == calls' = cs /\ UNCHANGED handlerVars

\* A mutant of Catch: the envelope carries the text of the exception.
Catch_leaky(c, done) ==
  Return(done \o <<Call("ws.send", c, "error", 0, 0, "err.message", <<>>)>>)

\* The catch block, server.js:450-459, entered after the calls in done.
Catch(c, done) == Return(done \o <<SendError(c)>>)

\* A mutant of DropsUnauthenticated: the authentication guard is missing.
DropsUnauthenticated_never(c) == FALSE

\* server.js:414: if (!authenticated) return
DropsUnauthenticated(c) == ~authenticated[c]

\* A mutant of ValidDimensions: the upper limits are not checked.
ValidDimensions_noUpper(cols, rows) ==
  ~(\/ ~IsInteger(cols) \/ ~IsInteger(rows) \/ cols.n10 < 10 * 1 \/ rows.n10 < 10 * 1)

\* server.js:429-436, negated: the dimensions that do not throw.
ValidDimensions(cols, rows) ==
  ~(\/ ~IsInteger(cols)
    \/ ~IsInteger(rows)
    \/ cols.n10 < 10 * 1
    \/ cols.n10 > 10 * MAX_COLS
    \/ rows.n10 < 10 * 1
    \/ rows.n10 > 10 * MAX_ROWS)

\* A mutant of NeedsSpawn: every valid resize spawns.
NeedsSpawn_always(c) == TRUE

\* server.js:439: if (!ptyProcess)
NeedsSpawn(c) == ptyProcess[c] = "null"

\* A mutant of HasPty: the write is not guarded.
HasPty_always(c) == TRUE

\* server.js:422: if (ptyProcess)
HasPty(c) == ptyProcess[c] # "null"

\* A mutant of setupPTYArgs: the PTY is created with the default size.
setupPTYArgs_defaults(cols, rows) == <<DEFAULT_COLS, DEFAULT_ROWS>>

\* server.js:341, 441: setupPTY(cols, rows) calls createPTY(cols, rows).
setupPTYArgs(cols, rows) == <<cols, rows>>

\* A mutant of AuthSuccessCalls: the deadline timer is left pending.
AuthSuccessCalls_noClear(c) == <<SendConnected(c, "Authentication successful")>>

\* server.js:396-405: the calls made on a token match.
AuthSuccessCalls(c) ==
  <<ClearTimeout(c), SendConnected(c, "Authentication successful")>>

\* A mutant of AuthBranch: the two early returns (no secret configured,
\* already authenticated) are missing.
AuthBranch_noEarlyReturn(c, m) ==
  IF secureTokenCompare(m.token, AUTH_TOKEN)
  THEN /\ authenticated' = [authenticated EXCEPT ![c] = TRUE]
       /\ calls' = AuthSuccessCalls(c)
       /\ timer' = [timer EXCEPT ![c] = Cleared(@)]
       /\ UNCHANGED <<wsState, closeCalls, ptyProcess, ptyState, spawnCalls,
                      ptyCreated>>
  ELSE /\ CloseWs(c, CLOSE_UNAUTHORIZED, "Unauthorized")
       /\ calls' = <<WsClose(c, CLOSE_UNAUTHORIZED, "Unauthorized")>>
       /\ UNCHANGED <<authenticated, timer, ptyProcess, ptyState, spawnCalls,
                      ptyCreated>>

\* The 'auth' branch, server.js:382-411.
AuthBranch(c, m) ==
  IF ~TokenRequired THEN Return(<<>>)
  ELSE IF authenticated[c] THEN Return(<<>>)
  ELSE IF secureTokenCompare(m.token, AUTH_TOKEN)
  THEN /\ authenticated' = [authenticated EXCEPT ![c] = TRUE]
       /\ calls' = AuthSuccessCalls(c)
       /\ timer' = [timer EXCEPT ![c] =
                      IF \E i \in 1..Len(calls') : calls'[i].api = "clearTimeout"
                      THEN Cleared(@) ELSE @]
       /\ UNCHANGED <<wsState, closeCalls, ptyProcess, ptyState, spawnCalls,
                      ptyCreated>>
  ELSE /\ CloseWs(c, CLOSE_UNAUTHORIZED, "Unauthorized")
       /\ calls' = <<WsClose(c, CLOSE_UNAUTHORIZED, "Unauthorized")>>
       /\ UNCHANGED <<authenticated, timer, ptyProcess, ptyState, spawnCalls,
                      ptyCreated>>

\* A mutant of InputBranch: the data is written before it is validated.
InputBranch_writesFirst(c, m) ==
  IF HasPty(c)
  THEN IF validateInput(m.data) THEN Return(<<PtyWrite(c, m.data.s)>>)
       ELSE Catch(c, <<PtyWrite(c, m.data.s)>>)
  ELSE IF validateInput(m.data) THEN Return(<<>>) ELSE Catch(c, <<>>)

\* The 'input' branch, server.js:419-424.
InputBranch(c, m) ==
  IF ~validateInput(m.data) THEN Catch(c, <<>>)
  ELSE IF HasPty(c) THEN Return(<<PtyWrite(c, m.data.s)>>)
  ELSE Return(<<>>)

\* A mutant of SpawnThrows: the exception of pty.spawn is not answered.
SpawnThrows_silent(c, args) == <<PtySpawn(c, args[1], args[2], "throws")>>

\* pty.spawn throws inside setupPTY (server.js:341, 441): the exception
\* reaches the catch block (450-459), which sends the error envelope.
SpawnThrows(c, args) ==
  <<PtySpawn(c, args[1], args[2], "throws"), SendError(c)>>

\* The 'resize' branch, server.js:425-446, with setupPTY (340-371) and
\* createPTY (273-292).  pty.spawn either returns a PTY or throws (spawnOk).
ResizeBranch(c, m, spawnOk) ==
  LET cols == Number(m.cols)
      rows == Number(m.rows)
  IN IF ~ValidDimensions(cols, rows) THEN Catch(c, <<>>)
     ELSE IF NeedsSpawn(c)
     THEN LET args == setupPTYArgs(cols.n10 \div 10, rows.n10 \div 10)
          IN /\ spawnCalls' = [spawnCalls EXCEPT ![c] = Sat(@)]
             /\ IF spawnOk
                THEN /\ ptyProcess' = [ptyProcess EXCEPT ![c] = "pty"]
                     /\ ptyState' = [ptyState EXCEPT ![c] =
                          [state |-> "running", cols |-> args[1],
                           rows |-> args[2], killed |-> FALSE]]
                     /\ ptyCreated' = [ptyCreated EXCEPT ![c] = Sat(@)]
                     /\ calls' = <<PtySpawn(c, args[1], args[2], "ok")>>
                ELSE /\ calls' = SpawnThrows(c, args)
                     /\ UNCHANGED <<ptyProcess, ptyState, ptyCreated>>
             /\ UNCHANGED <<wsState, closeCalls, authenticated, timer>>
     ELSE /\ ptyState' = [ptyState EXCEPT ![c].cols = cols.n10 \div 10,
                                          ![c].rows = rows.n10 \div 10]
          /\ calls' = <<PtyResize(c, cols.n10 \div 10, rows.n10 \div 10)>>
          /\ UNCHANGED <<wsState, closeCalls, authenticated, timer, ptyProcess,
                         spawnCalls, ptyCreated>>

\* The 'message' handler, server.js:377-460.  Messages are delivered to a
\* session until its close event.
OnMessage(c, m, spawnOk) ==
  /\ session[c] = "live"
  /\ wsState[c] \in {"open", "closing"}
  /\ IF m.parse # "object" THEN Catch(c, <<>>)
     ELSE IF m.type = "auth" THEN AuthBranch(c, m)
     ELSE IF DropsUnauthenticated(c) THEN Return(<<>>)
     ELSE IF m.type = "input" THEN InputBranch(c, m)
     ELSE IF m.type = "resize" THEN ResizeBranch(c, m, spawnOk)
     ELSE Catch(c, <<>>)
  /\ Observed(Kind(m))
  /\ UNCHANGED <<activeConnections, remoteAddress, session, authTimeout, envVars>>

\* ------------------------------------------------------------------ inputs
Tokens ==
  { Secret,
    JStr(<<"a", "b", "NUL">>),
    JStr(<<"a">>),
    JStr(<<"a", "c">>),
    JStr(<<>>),
    Undefined,
    JInt(1) }

InputData ==
  { JStr(<<"l", "s">>), JStr(<<" ">>), JStr(<<>>), JStr(<<"l", "NUL">>), Undefined }

Dimensions ==
  { <<JInt(80), JInt(24)>>, <<JInt(120), JInt(40)>>,
    <<JInt(0), JInt(24)>>, <<JInt(501), JInt(24)>>, <<JInt(80), JInt(201)>>,
    <<JNum(805), JInt(24)>>, <<Undefined, Undefined>> }

\* Values of the cols and rows properties around the limits of the resize
\* validation: 0, 1, the maximum, one more, 1.5, strings, null, absent.
ColsProbes ==
  { JInt(0), JInt(1), JInt(MAX_COLS), JInt(MAX_COLS + 1), JNum(15),
    JStr(<<"8", "0">>), JStr(<<"a", "b", "c">>), JNull, Undefined }
RowsProbes ==
  { JInt(0), JInt(1), JInt(MAX_ROWS), JInt(MAX_ROWS + 1), JNum(15),
    JStr(<<"2", "4">>), JNull, Undefined }
ResizeProbes == {ResizeMsg(cols, rows) : cols \in ColsProbes, rows \in RowsProbes}

\* Arguments for validateInput: every string of at most MaxShort
\* characters over a letter, a blank, a tab and NUL; strings of
\* MAX_INPUT_LENGTH - 1, MAX_INPUT_LENGTH and MAX_INPUT_LENGTH + 1 letters;
\* strings of these lengths ending in NUL; and values that are not strings.
Alphabet == {"a", " ", "\t", "NUL"}
ShortStrings == UNION {[1..n -> Alphabet] : n \in 0..MaxShort}
Repeat(ch, n) == [i \in 1..n |-> ch]
LongLengths == {MAX_INPUT_LENGTH - 1, MAX_INPUT_LENGTH, MAX_INPUT_LENGTH + 1}
LongStrings ==
  {Repeat("a", n) : n \in LongLengths}
    \cup {Repeat("a", n - 1) \o <<"NUL">> : n \in LongLengths}
ValidateInputArgs ==
  {JStr(str) : str \in ShortStrings \cup LongStrings}
    \cup {Undefined, JNull, JInt(123)}

\* Arguments for secureTokenCompare: every string of at most MaxShort
\* characters over two letters and NUL, and values that are not strings.
TokenAlphabet == {"a", "b", "NUL"}
SecureTokenCompareArgs ==
  {JStr(str) : str \in UNION {[1..n -> TokenAlphabet] : n \in 0..MaxShort}}
    \cup {Undefined, JNull, JInt(123)}

\* Arguments for isTailscaleIP: the addresses at the edges of
\* 100.64.0.0/10 and inside it, other addresses, an IPv6 address, names,
\* and strings of three and five parts.
Hostnames ==
  { <<"1", "0", "0", ".", "6", "4", ".", "0", ".", "0">>,
    <<"1", "0", "0", ".", "1", "2", "7", ".", "2", "5", "5", ".", "2", "5", "5">>,
    <<"1", "0", "0", ".", "1", "0", "0", ".", "1", "0", "0", ".", "1", "0", "0">>,
    <<"1", "0", "0", ".", "6", "3", ".", "2", "5", "5", ".", "2", "5", "5">>,
    <<"1", "0", "0", ".", "1", "2", "8", ".", "0", ".", "0">>,
    <<"f", "d", "7", "a", ":", "1", "1", "5", "c", ":", "a", "1", "e", "0", ":", ":", "1">>,
    <<"l", "o", "c", "a", "l", "h", "o", "s", "t">>,
    <<"1", "0", "0", ".", "6", "4", ".", "0">>,
    <<"1", "0", "0", ".", "6", "4", ".", "0", ".", "0", ".", "1">>,
    <<"1", "9", "2", ".", "1", "6", "8", ".", "1", ".", "1">>,
    <<>>,
    <<"1", "0", "0", ".", "6", "4", ".", "e", "v", "i", "l", ".", "c", "o", "m">>,
    <<"1", "0", "0", "x", ".", "6", "4", ".", "0", ".", "1">>,
    <<"1", "0", "0", ".", "6", "4", ".", ".">>,
    <<"1", "0", "0", ".", "6", "4", ".", "0", ".", "9", "9", "9">>,
    <<"1", "0", "0", ".", "1", "2", "7", "x", ".", "0", ".", "1">>,
    <<"-", "1", "0", "0", ".", "6", "4", ".", "0", ".", "1">>,
    <<"9", "9", ".", "6", "4", ".", "0", ".", "1">> }

\* Environments of the host process: HOME, TERM, LC_ALL, EDITOR, VISUAL
\* and TINYTERMINAL_TOKEN are each unset, empty or set; USER and PATH are
\* set; the other variables of SAFE_ENV_KEYS are unset.
EnvValues == {Undefined, JStr(<<>>), JStr(<<"x">>)}
VariedEnvKeys == {"HOME", "TERM", "LC_ALL", "EDITOR", "VISUAL", "TINYTERMINAL_TOKEN"}
EnvKeys == SAFE_ENV_KEYS \cup VariedEnvKeys
HostEnvironments ==
  {[key \in EnvKeys |->
      IF key \in VariedEnvKeys THEN e[key]
      ELSE IF key \in {"USER", "PATH"} THEN JStr(<<"x">>)
      ELSE Undefined] : e \in [VariedEnvKeys -> EnvValues]}

Messages ==
  {AuthMsg(t) : t \in Tokens}
    \cup {InputMsg(d) : d \in InputData}
    \cup {ResizeMsg(d[1], d[2]) : d \in Dimensions}
    \cup {UnknownMsg, Unparseable, NullPayload}

Origins ==
  { NoOrigin, MalformedOrigin,
    UrlOrigin(<<"l", "o", "c", "a", "l", "h", "o", "s", "t">>),
    UrlOrigin(<<"1", "0", "0", ".", "6", "4", ".", "0", ".", "1">>),
    UrlOrigin(<<"e", "v", "i", "l", ".", "c", "o", "m">>),
    UrlOrigin(<<"1", "0", "0", ".", "6", "4", ".", "e", "v", "i", "l", ".", "c", "o", "m">>) }

Addresses == {"100.64.0.1", "100.64.0.2"}
OneAddress == {"100.64.0.1"}
PtyOutputs == {<<"$">>, <<"o", "k">>}
ExitCodes == {0, 1}

\* --------------------------------------------------------- specifications
\* One session in full: every handler, every kind of message.
Next ==
  \/ \E c \in OneConn, o \in Origins, a \in OneAddress : Connect(c, o, a)
  \/ \E c \in OneConn, m \in Messages, ok \in BOOLEAN : OnMessage(c, m, ok)
  \/ \E c \in OneConn : AuthTimeoutFire(c)
  \/ \E c \in OneConn : CloseEvent(c)
  \/ \E c \in OneConn, d \in PtyOutputs, ok \in BOOLEAN : PtyData(c, d, ok)
  \/ \E c \in OneConn, e \in ExitCodes, ok \in BOOLEAN : PtyExit(c, e, ok)
  \/ Tick

Spec == Init /\ [][Next]_vars

\* Admission: NumConns WebSocket objects arrive and go away.
NextAdmission ==
  \/ \E c \in Conns, o \in Origins, a \in Addresses : Connect(c, o, a)
  \/ \E c \in Conns : CloseEvent(c)

SpecAdmission == Init /\ [][NextAdmission]_vars

\* Resize validation: one session without a secret receives resize
\* messages whose dimensions lie around the limits.
InitResize == Init /\ AUTH_TOKEN = Undefined

NextResize ==
  \/ \E c \in OneConn, o \in Origins, a \in OneAddress : Connect(c, o, a)
  \/ \E c \in OneConn, m \in ResizeProbes, ok \in BOOLEAN : OnMessage(c, m, ok)
  \/ \E c \in OneConn, e \in ExitCodes, ok \in BOOLEAN : PtyExit(c, e, ok)
  \/ \E c \in OneConn : CloseEvent(c)

SpecResize == InitResize /\ [][NextResize]_vars

\* Liveness: one session without a secret, whose peer answers or stays
\* silent while heartbeat intervals pass.
InitHeartbeat == Init /\ AUTH_TOKEN = Undefined

NextHeartbeat ==
  \/ \E c \in OneConn, o \in Origins, a \in OneAddress : Connect(c, o, a)
  \/ \E c \in OneConn, m \in Messages, ok \in BOOLEAN : OnMessage(c, m, ok)
  \/ \E c \in OneConn : CloseEvent(c)
  \/ \E c \in OneConn : Pong(c)
  \/ Elapse

SpecHeartbeat == InitHeartbeat /\ [][NextHeartbeat]_vars

\* PTY lifetimes: NumConns WebSocket objects without a secret; each session
\* may create its PTY (pty.spawn returns), resize it, see it exit, and close.
InitPtys == Init /\ AUTH_TOKEN = Undefined

NextPtys ==
  \/ \E c \in Conns, a \in OneAddress : Connect(c, NoOrigin, a)
  \/ \E c \in Conns :
       OnMessage(c, ResizeMsg(JInt(DEFAULT_COLS), JInt(DEFAULT_ROWS)), TRUE)
  \/ \E c \in Conns : PtyExit(c, 0, TRUE)
  \/ \E c \in Conns : CloseEvent(c)

SpecPtys == InitPtys /\ [][NextPtys]_vars

\* The browser client, from the end of its script (which calls connect(),
\* SPEC.md:800) on, with and without a token in the page's URL.
InitClient ==
  /\ InitSessions
  /\ AUTH_TOKEN = Undefined
  /\ pureCall = NoPureCall
  /\ client \in {connect([NoClient EXCEPT !.urlToken = t]) : t \in {"absent", "present"}}

NextClient ==
  \/ \E k \in 1..MaxSockets : SocketOpens(k)
  \/ \E k \in 1..MaxSockets : SocketCloses(k)
  \/ ReconnectTimer
  \/ \E hidden \in BOOLEAN : VisibilityChange(hidden)
  \/ WindowResize

SpecClient == InitClient /\ [][NextClient]_vars

\* The exported pure functions, called directly on each argument.
InitPure ==
  /\ InitSessions
  /\ AUTH_TOKEN = Undefined
  /\ client = NoClient
  /\ pureCall \in
       {PendingCall("validateInput", <<x>>) : x \in ValidateInputArgs}
         \cup {PendingCall("secureTokenCompare", <<a, b>>) :
                  a \in SecureTokenCompareArgs, b \in SecureTokenCompareArgs}
         \cup {PendingCall("isTailscaleIP", <<h>>) : h \in Hostnames}
         \cup {PendingCall("createPTY", <<e>>) : e \in HostEnvironments}

NextPure ==
  \/ ValidateInputCall
  \/ SecureTokenCompareCall
  \/ IsTailscaleIPCall
  \/ \E ok \in BOOLEAN : CreatePTYCall(ok)

SpecPure == InitPure /\ [][NextPure]_vars

\* ----------------------------------------------------------------- claims
AllowedOrigins == {o \in Origins : isAllowedOrigin(o)}
Live == {c \in Conns : session[c] = "live"}

\* The calls of the latest step made for session c through the given API.
CallsOf(c, api) ==
  {i \in 1..Len(calls) : calls[i].conn = c /\ calls[i].api = api}

IsPtyEnvelope(call) == call.api = "ws.send" /\ call.kind \in {"output", "exit"}

IsResize(m) == m.parse = "object" /\ m.type = "resize"
IsValidResize(m) == IsResize(m) /\ ValidDimensions(Number(m.cols), Number(m.rows))
IsInput(m) == m.parse = "object" /\ m.type = "input"
IsAuth(m) == m.parse = "object" /\ m.type = "auth"
AuthMessages == {m \in Messages : IsAuth(m)}
InputMessages == {m \in Messages : IsInput(m)}
ResizeMessages == {m \in Messages : IsResize(m)}
ValidResizeMessages == {m \in Messages : IsValidResize(m)}
\* The well-formed messages that are not auth messages.
OtherMessages == {m \in Messages : m.parse = "object" /\ ~IsAuth(m)}
ColsOf(m) == Number(m.cols).n10 \div 10
RowsOf(m) == Number(m.rows).n10 \div 10

TimeoutClose == <<CLOSE_UNAUTHORIZED, "Authentication timeout">>
UnauthorizedClose == <<CLOSE_UNAUTHORIZED, "Unauthorized">>

\* C1: an 'output' or 'exit' envelope is sent only for a session whose
\* authenticated flag is true; with a secret configured the flag becomes
\* true only while an auth message is handled, and never while one whose
\* token is not the secret is handled, so that no PTY data is sent before
\* a valid auth message has been processed.
C1_PtyDataOnlyAfterValidAuth ==
  /\ [](\A i \in 1..Len(calls) :
          IsPtyEnvelope(calls[i]) => authenticated[calls[i].conn])
  /\ [][\A c \in Conns :
          /\ (TokenRequired /\ ~authenticated[c] /\ authenticated'[c]) =>
               \E m \in AuthMessages : OnMessage(c, m, TRUE)
          /\ \A m \in AuthMessages :
               (TokenRequired /\ m.token # AUTH_TOKEN /\ session[c] = "live"
                  /\ ~authenticated[c] /\ OnMessage(c, m, TRUE)) =>
                 ~authenticated'[c]]_vars

\* C2: with a secret configured, no step taken while a session is
\* unauthenticated spawns a PTY; a well-formed non-auth message handled
\* while unauthenticated makes no call and changes nothing; and the spawn
\* primitive is called only while a resize message is handled, so not by
\* the successful auth itself.
C2_NoPtyBeforeAuthentication ==
  [][\A c \in Conns : TokenRequired =>
       /\ ~authenticated[c] =>
            /\ spawnCalls'[c] = spawnCalls[c]
            /\ ptyProcess'[c] = "null"
            /\ ptyState'[c].state = "none"
       /\ \A m \in OtherMessages, ok \in BOOLEAN :
            (session[c] = "live" /\ ~authenticated[c] /\ OnMessage(c, m, ok)) =>
              (calls' = <<>> /\ UNCHANGED <<handlerVars, session, activeConnections>>)
       /\ (spawnCalls'[c] # spawnCalls[c]) =>
            (authenticated[c] /\
             \E m \in ResizeMessages, ok \in BOOLEAN : OnMessage(c, m, ok))]_vars

\* A resize has spawned the PTY of a session that had to authenticate.
C2_Witness ==
  /\ TokenRequired
  /\ \E c \in Conns : authenticated[c] /\ CallsOf(c, "pty.spawn") # {}

\* C3 as claimed: the spawn primitive is invoked at most once per session.
C3_SpawnInvokedAtMostOnce ==
  \A c \in Conns : spawnCalls[c] <= 1

\* C3 as amended: at most one PTY is created per session; the spawn
\* primitive is invoked only while a valid resize message is handled by a
\* session that holds no PTY (so again only after an invocation that threw).
C3_AtMostOnePtyCreated ==
  /\ [](\A c \in Conns : ptyCreated[c] <= 1)
  /\ [][\A c \in Conns :
          (spawnCalls'[c] # spawnCalls[c] \/ ptyCreated'[c] # ptyCreated[c]) =>
            /\ ptyProcess[c] = "null"
            /\ \E m \in ValidResizeMessages, ok \in BOOLEAN : OnMessage(c, m, ok)]_vars

\* A PTY was created by a second invocation, after one that threw.
C3_Witness ==
  \E c \in Conns : ptyCreated[c] = 1 /\ spawnCalls[c] = 2 /\ ptyProcess[c] = "pty"

\* C4 as claimed: the first valid resize creates the PTY with its cols and
\* rows, and every valid resize after the first one resizes that PTY and
\* invokes no spawn.
C4_FirstResizeSpawnsLaterResize ==
  [][\A c \in Live, m \in ValidResizeMessages, ok \in BOOLEAN :
       (authenticated[c] /\ OnMessage(c, m, ok)) =>
          IF spawnCalls[c] = 0
          THEN /\ ptyProcess'[c] = "pty"
               /\ ptyState'[c].cols = ColsOf(m) /\ ptyState'[c].rows = RowsOf(m)
          ELSE /\ calls' = <<PtyResize(c, ColsOf(m), RowsOf(m))>>
               /\ spawnCalls'[c] = spawnCalls[c]]_vars

\* C4 as amended: a valid resize handled by an authenticated session that
\* holds no PTY invokes the spawn primitive once with exactly its cols and
\* rows (the PTY, when the spawn returns, has that size); one handled by a
\* session that holds a PTY calls resize(cols, rows) on it and invokes no
\* spawn.
C4_ResizeSpawnsOrResizes ==
  [][\A c \in Live, m \in ValidResizeMessages, ok \in BOOLEAN :
       (authenticated[c] /\ OnMessage(c, m, ok)) =>
          IF ptyProcess[c] = "null"
          THEN /\ calls'[1] = PtySpawn(c, ColsOf(m), RowsOf(m),
                                       IF ok THEN "ok" ELSE "throws")
               /\ Cardinality({i \in 1..Len(calls') : calls'[i].api = "pty.spawn"}) = 1
               /\ \A i \in 1..Len(calls') : calls'[i].api # "pty.resize"
               /\ ok => /\ ptyProcess'[c] = "pty"
                        /\ ptyState'[c].state = "running"
                        /\ ptyState'[c].cols = ColsOf(m)
                        /\ ptyState'[c].rows = RowsOf(m)
          ELSE /\ calls' = <<PtyResize(c, ColsOf(m), RowsOf(m))>>
               /\ spawnCalls'[c] = spawnCalls[c]
               /\ ptyCreated'[c] = ptyCreated[c]
               /\ ptyProcess'[c] = ptyProcess[c]
               /\ ptyState'[c].cols = ColsOf(m) /\ ptyState'[c].rows = RowsOf(m)]_vars

\* A PTY created at 80x24 has just been resized to 120x40.
C4_Witness ==
  \E c \in Conns :
    /\ calls = <<PtyResize(c, 120, 40)>>
    /\ ptyCreated[c] = 1 /\ spawnCalls[c] = 1
    /\ ptyState[c].cols = 120 /\ ptyState[c].rows = 40

\* C5 as claimed: an input message handled by an authenticated session with
\* no PTY makes no call at all: no write, no spawn, nothing sent.
C5_InputWithoutPtyIsSilent ==
  [][\A c \in Live, m \in InputMessages, ok \in BOOLEAN :
       (authenticated[c] /\ ptyProcess[c] = "null" /\ OnMessage(c, m, ok)) =>
         calls' = <<>>]_vars

\* C5 as amended: such an input message never writes to or spawns a PTY and
\* changes no state; when its data passes validateInput nothing is sent,
\* and when it does not the generic error envelope is sent.
C5_InputWithoutPtyNeverWrites ==
  [][\A c \in Live, m \in InputMessages, ok \in BOOLEAN :
       (authenticated[c] /\ ptyProcess[c] = "null" /\ OnMessage(c, m, ok)) =>
         /\ UNCHANGED <<handlerVars, session, activeConnections>>
         /\ calls' = IF validateInput(m.data) THEN <<>> ELSE <<SendError(c)>>]_vars

\* An authenticated session without a PTY, on which no resize was handled,
\* has answered with the error envelope.
C5_Witness ==
  \E c \in Conns :
    /\ session[c] = "live" /\ authenticated[c]
    /\ ptyProcess[c] = "null" /\ spawnCalls[c] = 0
    /\ calls = <<SendError(c)>>

\* C6: at most MAX_CONNECTIONS sessions are live; a connection with an
\* allowed origin arriving while fewer are live is admitted and not closed,
\* and one arriving while MAX_CONNECTIONS are live is closed at once with
\* nothing sent, no session and no slot taken.
C6_ConnectionLimit ==
  /\ [](Cardinality(Live) <= MAX_CONNECTIONS)
  /\ [][\A c \in Conns, o \in AllowedOrigins, a \in Addresses :
          (wsState[c] = "idle" /\ Connect(c, o, a)) =>
             IF Cardinality(Live) < MAX_CONNECTIONS
             THEN /\ session'[c] = "live"
                  /\ wsState'[c] = "open"
                  /\ \A i \in 1..Len(calls') : calls'[i].api # "ws.close"
             ELSE /\ session'[c] = "none"
                  /\ wsState'[c] = "closing"
                  /\ calls' = <<WsClose(c, 0, "")>>
                  /\ activeConnections' = activeConnections]_vars

\* MAX_CONNECTIONS sessions are live and one more connection was closed.
C6_Witness ==
  /\ Cardinality(Live) = MAX_CONNECTIONS
  /\ \E c \in Conns :
       session[c] = "none" /\ wsState[c] = "closing" /\ calls = <<WsClose(c, 0, "")>>

\* C7: two live sessions never have the same remote address.
C7_OneSessionPerAddress ==
  \A c1, c2 \in Conns :
    (c1 # c2 /\ session[c1] = "live" /\ session[c2] = "live") =>
      remoteAddress[c1] # remoteAddress[c2]

\* C8: with a secret configured, an auth message whose token is the secret,
\* handled by an unauthenticated session, sets authenticated, cancels the
\* deadline timer, sends exactly one envelope, 'connected', and does not
\* close the connection.
C8_ValidAuthSucceeds ==
  [][\A c \in Live, m \in AuthMessages, ok \in BOOLEAN :
       (TokenRequired /\ ~authenticated[c] /\ m.token = AUTH_TOKEN
          /\ OnMessage(c, m, ok)) =>
         /\ authenticated'[c]
         /\ timer'[c].state # "armed"
         /\ \E i \in 1..Len(calls') : calls'[i] = ClearTimeout(c)
         /\ {calls'[i] : i \in {j \in 1..Len(calls') : calls'[j].api = "ws.send"}}
              = {SendConnected(c, "Authentication successful")}
         /\ Cardinality({j \in 1..Len(calls') : calls'[j].api = "ws.send"}) = 1
         /\ \A i \in 1..Len(calls') : calls'[i].api # "ws.close"
         /\ wsState'[c] = wsState[c] /\ closeCalls'[c] = closeCalls[c]]_vars

\* A session has just authenticated while its connection is open.
C8_Witness ==
  \E c \in Conns :
    /\ TokenRequired /\ authenticated[c] /\ wsState[c] = "open"
    /\ timer[c].state = "cleared"
    /\ calls = <<ClearTimeout(c), SendConnected(c, "Authentication successful")>>

\* C9: with a secret configured, an auth message whose token is not the
\* secret, handled by an unauthenticated session, closes the connection with
\* 4001 'Unauthorized', sends nothing and leaves authenticated false.
C9_MismatchIsRejected ==
  [][\A c \in Live, m \in AuthMessages, ok \in BOOLEAN :
       (TokenRequired /\ ~authenticated[c] /\ m.token # AUTH_TOKEN
          /\ OnMessage(c, m, ok)) =>
         /\ calls' = <<WsClose(c, CLOSE_UNAUTHORIZED, "Unauthorized")>>
         /\ UnauthorizedClose \in closeCalls'[c]
         /\ ~authenticated'[c]]_vars

\* C10: with a secret configured, a live session that is still
\* unauthenticated more than AUTH_TIMEOUT time units after its connection
\* has had close(4001, 'Authentication timeout') called on its connection,
\* and that close is never called before the deadline.
C10_AuthTimeoutCloses ==
  \A c \in Conns :
    /\ (TokenRequired /\ session[c] = "live" /\ ~authenticated[c]
          /\ authTimeout[c] = "timer" /\ now > timer[c].due) =>
         TimeoutClose \in closeCalls[c]
    /\ TimeoutClose \in closeCalls[c] =>
         (authTimeout[c] = "timer" /\ now >= timer[c].due)

\* The deadline has passed on an unauthenticated session and the timeout
\* close was requested.
C10_Witness ==
  \E c \in Conns :
    /\ TokenRequired /\ session[c] = "live" /\ ~authenticated[c]
    /\ now > timer[c].due /\ timer[c].state = "fired"
    /\ TimeoutClose \in closeCalls[c]

\* C11: when no secret is configured, every admitted session is
\* authenticated from its admission on, no auth deadline timer is ever
\* created or armed for it, and its WebSocket is never closed with
\* 'Authentication timeout' or 'Unauthorized'.
C11_NoSecretStartsAuthenticated ==
  (AUTH_TOKEN = Undefined) =>
    \A c \in Conns :
      /\ (session[c] # "none") => authenticated[c]
      /\ authTimeout[c] = "null"
      /\ timer[c] = NoTimer
      /\ TimeoutClose \notin closeCalls[c]
      /\ UnauthorizedClose \notin closeCalls[c]

\* Without a secret, a session admitted at time 0 is still open and
\* authenticated when the auth deadline has passed and an auth message
\* has just been handled.
C11_Witness ==
  /\ AUTH_TOKEN = Undefined
  /\ now > AUTH_TIMEOUT
  /\ received = Kind(AuthMsg(Undefined))
  /\ \E c \in Live : authenticated[c] /\ wsState[c] = "open" /\ closeCalls[c] = {}

\* C12: an auth message handled for a session that is already
\* authenticated, or while no secret is configured, does nothing, whatever
\* token it carries: no call is made (nothing is sent, the WebSocket is not
\* closed, no timer is cleared) and the authenticated flag, the PTY handle,
\* the PTY and the timers stay as they are.
C12_AuthWhenAuthenticatedIsNoOp ==
  [][\A c \in Live, m \in AuthMessages :
       ((~TokenRequired \/ authenticated[c]) /\ received' = Kind(m)
          /\ OnMessage(c, m, TRUE)) =>
         /\ calls' = <<>>
         /\ UNCHANGED <<handlerVars, session, authTimeout, activeConnections,
                        connectedCount>>]_vars

\* With a secret configured, an auth message has just been handled for an
\* authenticated session: nothing was called and the WebSocket is open.
C12_Witness ==
  /\ TokenRequired
  /\ received = Kind(AuthMsg(Undefined))
  /\ calls = <<>>
  /\ \E c \in Live :
       authenticated[c] /\ wsState[c] = "open" /\ closeCalls[c] = {}
                        /\ connectedCount[c] = 1

\* C13: a parsed message of any type other than auth (input, resize, or
\* an unknown type) handled while the session's authenticated flag is false
\* is dropped silently: no call at all is made (no PTY operation, no
\* envelope, not even the error envelope) and no state changes.
C13_UnauthenticatedMessageIsDropped ==
  [][\A c \in Live, m \in OtherMessages, ok \in BOOLEAN :
       (~authenticated[c] /\ received' = Kind(m) /\ OnMessage(c, m, ok)) =>
         /\ calls' = <<>>
         /\ UNCHANGED <<handlerVars, session, authTimeout, activeConnections,
                        connectedCount>>]_vars

\* A resize message has just been handled for a session that has not
\* authenticated: nothing was called, no PTY exists, the session goes on.
C13_Witness ==
  /\ received = Kind(ResizeMsg(JInt(80), JInt(24)))
  /\ calls = <<>>
  /\ \E c \in Live :
       /\ ~authenticated[c] /\ wsState[c] = "open"
       /\ ptyProcess[c] = "null" /\ spawnCalls[c] = 0

\* C14: a session sends the 'connected' envelope at most once over its
\* lifetime.  Without a secret it is sent by the admission itself and by
\* nothing else.  With a secret it is sent only while an auth message is
\* handled for a session that was not authenticated and becomes so, and
\* never while an auth message whose token is not the secret is handled:
\* no 'connected' envelope precedes a valid auth message.
C14_ConnectedAtMostOnce ==
  /\ [](\A c \in Conns : connectedCount[c] <= 1)
  /\ [][\A c \in Conns :
          /\ (~TokenRequired /\ session[c] = "none" /\ session'[c] = "live") =>
               connectedCount'[c] = 1
          /\ (connectedCount'[c] # connectedCount[c]) =>
               IF ~TokenRequired
               THEN session[c] = "none" /\ session'[c] = "live"
               ELSE /\ ~authenticated[c] /\ authenticated'[c]
                    /\ \E m \in AuthMessages : OnMessage(c, m, TRUE)
          /\ \A m \in AuthMessages :
               (TokenRequired /\ m.token # AUTH_TOKEN /\ session[c] = "live"
                  /\ OnMessage(c, m, TRUE)) =>
                 connectedCount'[c] = connectedCount[c]]_vars

\* The messages whose handling fails whatever the state of an
\* authenticated session: a payload JSON.parse rejects, the JSON text null,
\* an unknown type, an input validateInput rejects, a resize with invalid
\* dimensions.
FailingMessages ==
  {m \in Messages :
     \/ m.parse # "object"
     \/ m.type = "other"
     \/ IsInput(m) /\ ~validateInput(m.data)
     \/ IsResize(m) /\ ~IsValidResize(m)}

SendsIn(cs) == {i \in 1..Len(cs) : cs[i].api = "ws.send"}

IsIntegerInRange(x, max) ==
  x.t = "number" /\ x.n10 % 10 = 0 /\ x.n10 >= 10 /\ x.n10 <= 10 * max

\* The calls of an accepted resize to cols x rows: the spawn primitive
\* invoked, or the PTY resized, with exactly these dimensions.
IsAcceptedResize(cs, c, cols, rows) ==
  /\ Len(cs) >= 1
  /\ \/ cs[1] = PtySpawn(c, cols, rows, "ok")
     \/ cs[1] = PtySpawn(c, cols, rows, "throws")
     \/ cs = <<PtyResize(c, cols, rows)>>

\* The calls and effects of a rejected resize: the generic error envelope
\* and nothing else, no spawn, no resize.
IsRejectedResize(c) ==
  /\ calls' = <<SendError(c)>>
  /\ UNCHANGED <<ptyProcess, ptyState, spawnCalls, ptyCreated>>

\* C16 as stated: a resize message handled for an authenticated session is
\* accepted iff its cols and rows are integers with 1 <= cols <= 500 and
\* 1 <= rows <= 200, and is otherwise rejected with the generic error
\* envelope and no PTY spawn or resize.
C16_AcceptedIffIntegersInRange ==
  [][\A c \in Live, m \in ResizeProbes, ok \in BOOLEAN :
       (authenticated[c] /\ received' = Kind(m) /\ OnMessage(c, m, ok)) =>
         IF IsIntegerInRange(m.cols, 500) /\ IsIntegerInRange(m.rows, 200)
         THEN IsAcceptedResize(calls', c, m.cols.n10 \div 10, m.rows.n10 \div 10)
         ELSE IsRejectedResize(c)]_vars

\* C16, amended: a resize message handled for an authenticated session is
\* accepted iff Number(cols) and Number(rows) are integers with
\* 1 <= Number(cols) <= 500 and 1 <= Number(rows) <= 200; the boundary
\* values 1, 500 and 1, 200 are accepted with exactly these dimensions; 0,
\* 501, 201, a fraction, a string that is not a number, null and an absent
\* property are rejected with the generic error envelope and no PTY spawn
\* or resize.
C16_AcceptedIffNumberInRange ==
  [][\A c \in Live, m \in ResizeProbes, ok \in BOOLEAN :
       (authenticated[c] /\ received' = Kind(m) /\ OnMessage(c, m, ok)) =>
         IF IsIntegerInRange(Number(m.cols), 500) /\ IsIntegerInRange(Number(m.rows), 200)
         THEN IsAcceptedResize(calls', c, ColsOf(m), RowsOf(m))
         ELSE IsRejectedResize(c)]_vars

\* A resize to the largest dimensions has just created the PTY, which has
\* that size.
C16_Witness ==
  /\ received = Kind(ResizeMsg(JInt(500), JInt(200)))
  /\ \E c \in Live :
       /\ calls = <<PtySpawn(c, 500, 200, "ok")>>
       /\ ptyState[c].cols = 500 /\ ptyState[c].rows = 200
       /\ ptyState[c].state = "running"

\* C17: validateInput accepts its argument (returns without throwing) iff
\* it is a string of 1 to MAX_INPUT_LENGTH = 10000 characters, both ends
\* included, that contains no NUL character: the empty string is rejected,
\* a string of exactly 10000 characters is accepted, one of 10001 is
\* rejected, and a string of white space only is accepted.
C17_ValidateInputAccepts ==
  (pureCall.fn = "validateInput" /\ pureCall.outcome # "pending") =>
    LET input == pureCall.args[1]
    IN (pureCall.outcome = "returns") <=>
         /\ input.t = "string"
         /\ Len(input.s) >= 1
         /\ Len(input.s) <= 10000
         /\ \A i \in 1..Len(input.s) : input.s[i] # "NUL"

\* validateInput has returned on a string of exactly 10000 characters.
C17_Witness ==
  /\ pureCall.fn = "validateInput"
  /\ pureCall.outcome = "returns"
  /\ Len(pureCall.args[1].s) = 10000

PtyCallsIn(cs, c) ==
  {i \in 1..Len(cs) :
     cs[i].conn = c /\ cs[i].api \in {"pty.spawn", "pty.write", "pty.resize", "pty.kill"}}

\* C18: when the close event of a session's WebSocket is handled, whatever
\* led to it (the client going away, the close after a failed auth, the
\* close after the auth deadline), a PTY the session holds is killed, once,
\* and the handle is cleared; when the session holds no PTY the handler
\* makes no PTY call, sends nothing, and the handle stays clear.
C18_CloseKillsPty ==
  [][\A c \in Live :
       (wsState'[c] = "closed" /\ CloseEvent(c)) =>
         /\ ptyProcess'[c] = "null"
         /\ session'[c] = "destroyed"
         /\ SendsIn(calls') = {}
         /\ IF ptyProcess[c] # "null"
            THEN /\ \A i \in PtyCallsIn(calls', c) : calls'[i] = PtyKill(c)
                 /\ Cardinality(PtyCallsIn(calls', c)) = 1
                 /\ ptyState'[c].killed
            ELSE /\ PtyCallsIn(calls', c) = {}
                 /\ ptyState'[c] = ptyState[c]]_vars

\* The close event of a session that held a running PTY has just been
\* handled: the PTY was killed and the handle is clear.
C18_Witness ==
  \E c \in Conns :
    /\ session[c] = "destroyed" /\ wsState[c] = "closed"
    /\ calls = <<PtyKill(c)>>
    /\ ptyProcess[c] = "null"
    /\ ptyState[c].state = "running" /\ ptyState[c].killed

TerminatesIn(cs, c) ==
  {i \in 1..Len(cs) : cs[i].conn = c /\ cs[i].api = "ws.terminate"}

\* C19: with no pong received, the WebSocket of an open session is
\* terminated (ws.terminate, not ws.close) when the heartbeat interval
\* after MAX_MISSED_PONGS silent ones has passed: not during the first
\* MAX_MISSED_PONGS intervals, exactly once on the next, and never by
\* ws.close.
C19_SilentSessionIsTerminated ==
  [][\A c \in Live :
       (wsState[c] = "open" /\ Elapse) =>
         /\ (silent[c] < MAX_MISSED_PONGS) => TerminatesIn(calls', c) = {}
         /\ (silent[c] = MAX_MISSED_PONGS) => Cardinality(TerminatesIn(calls', c)) = 1
         /\ closeCalls'[c] = closeCalls[c]]_vars

\* C20: a pong received by a live session is handled by the session (its
\* listener resets the count of missed pongs to zero), so that a session
\* whose peer has answered within the last MAX_MISSED_PONGS intervals is
\* not terminated.
C20_PongResetsMissedCount ==
  /\ [][\A c \in Live : Pong(c) => "pong" \in Listeners(c)]_vars
  /\ [](\A c \in Conns :
          (silent[c] <= MAX_MISSED_PONGS) => TerminatesIn(calls, c) = {})

PingsIn(cs, c) == {i \in 1..Len(cs) : cs[i].conn = c /\ cs[i].api = "ws.ping"}

\* C21: without a secret the heartbeat starts with the connection: when
\* the first heartbeat interval after the admission of an open session has
\* passed, one probe (ws.ping) is sent to it, and none before; no probe is
\* ever sent to a session that is not authenticated.
C21_FirstProbeAfterOneInterval ==
  /\ [](\A c \in Conns : ~authenticated[c] => PingsIn(calls, c) = {})
  /\ [][\A c \in Live :
          /\ (wsState[c] = "open" /\ silent[c] = 0 /\ Elapse) =>
               Cardinality(PingsIn(calls', c)) = 1
          /\ ~Elapse => PingsIn(calls', c) = {}]_vars

ClearIntervalsIn(cs, c) ==
  {i \in 1..Len(cs) : cs[i].conn = c /\ cs[i].api = "clearInterval"}

\* C22: the close handler of a session cancels the session's heartbeat
\* timer, with one clearInterval call, and nothing else ever cancels it;
\* no probe is sent to a session whose close event has been handled.
C22_HeartbeatTimerCancelledOnClose ==
  /\ [](\A c \in Conns : session[c] = "destroyed" => PingsIn(calls, c) = {})
  /\ [][\A c \in Live :
          IF wsState'[c] = "closed" /\ CloseEvent(c)
          THEN Cardinality(ClearIntervalsIn(calls', c)) = 1
          ELSE ClearIntervalsIn(calls', c) = {}]_vars

\* C23: secureTokenCompare(a, b) returns true exactly when a and b are
\* strings and the same string, whatever their lengths.
C23_CompareAgreesWithEquality ==
  (pureCall.fn = "secureTokenCompare" /\ pureCall.outcome # "pending") =>
    LET a == pureCall.args[1]
        b == pureCall.args[2]
    IN (pureCall.outcome = "true") <=>
         (a.t = "string" /\ b.t = "string" /\ a.s = b.s)

\* A host name is IPv4-shaped when it has four parts, each of one to
\* three decimal digits and at most 255.
IsOctet(part) ==
  /\ Len(part) \in 1..3
  /\ DigitPrefixLen(part) = Len(part)
  /\ DigitsValue(part) <= 255
IsIPv4Shaped(hostname) ==
  LET parts == Split(hostname)
  IN Len(parts) = 4 /\ \A i \in 1..4 : IsOctet(parts[i])
InCgnatRange(hostname) ==
  /\ IsIPv4Shaped(hostname)
  /\ DigitsValue(Split(hostname)[1]) = 100
  /\ DigitsValue(Split(hostname)[2]) \in 64..127

\* C24: isTailscaleIP(s) returns true exactly when s is an IPv4-shaped
\* address whose first octet is 100 and whose second octet is in 64..127.
C24_TailscaleIffCgnatAddress ==
  (pureCall.fn = "isTailscaleIP" /\ pureCall.outcome # "pending") =>
    ((pureCall.outcome = "true") <=> InCgnatRange(pureCall.args[1]))

\* C26: the environment createPTY passes to pty.spawn holds only
\* variables named in SAFE_ENV_KEYS; each of them other than TERM is there
\* only if the host environment sets it, and with the host's value; TERM
\* is always there with the value 'xterm-256color'; EDITOR and VISUAL are
\* never there.
C26_SpawnEnvironmentIsAllowListed ==
  (pureCall.fn = "createPTY" /\ pureCall.outcome # "pending") =>
    LET processEnv == pureCall.args[1]
        env == pureCall.result
    IN /\ DOMAIN env \subseteq SAFE_ENV_KEYS
       /\ \A key \in DOMAIN env \ {"TERM"} :
            processEnv[key].t = "string" /\ env[key] = processEnv[key]
       /\ "TERM" \in DOMAIN env /\ env["TERM"] = XTERM_256COLOR
       /\ "EDITOR" \notin DOMAIN env /\ "VISUAL" \notin DOMAIN env

\* createPTY has run in a host whose EDITOR, VISUAL, TERM and HOME are
\* set, and HOME has been forwarded.
C26_Witness ==
  /\ pureCall.fn = "createPTY"
  /\ pureCall.outcome = "returns"
  /\ Truthy(pureCall.args[1]["EDITOR"])
  /\ Truthy(pureCall.args[1]["VISUAL"])
  /\ Truthy(pureCall.args[1]["TERM"])
  /\ "HOME" \in DOMAIN pureCall.result

\* The declared origins that are not allowed: strings that are no URL,
\* and URLs whose host name is neither localhost, nor 127.0.0.1, nor an
\* address in 100.64.0.0/10.
DisallowedOrigins ==
  {o \in Origins :
     /\ o.kind # "undefined"
     /\ \/ o.kind = "malformed"
        \/ /\ o.hostname # <<"l", "o", "c", "a", "l", "h", "o", "s", "t">>
           /\ o.hostname # <<"1", "2", "7", ".", "0", ".", "0", ".", "1">>
           /\ ~InCgnatRange(o.hostname)}

\* C25: handleConnection on a connection whose declared origin is not
\* allowed only closes the WebSocket: it sends nothing, constructs no
\* session, registers no handler, arms no timer, and leaves the count of
\* active connections as it was.
C25_DisallowedOriginIsClosedUntouched ==
  [][\A c \in Conns, o \in DisallowedOrigins, a \in Addresses :
       (wsState[c] = "idle" /\ wsState'[c] # "idle" /\ Connect(c, o, a)) =>
         /\ calls' = <<WsClose(c, 0, "")>>
         /\ session'[c] = "none"
         /\ Listeners(c)' = {}
         /\ timer'[c] = NoTimer
         /\ activeConnections' = activeConnections]_vars

ClearTimeoutsIn(cs, c) == {i \in 1..Len(cs) : cs[i] = ClearTimeout(c)}

\* C27, as stated: every clearTimeout call on a session's auth deadline
\* timer cancels the pending timer, so that the later of successful
\* authentication and close makes no second call; once the session is
\* destroyed the timer is not pending.
C27_DeadlineCancelledExactlyOnce ==
  /\ [](\A c \in Conns : session[c] = "destroyed" => timer[c].state # "armed")
  /\ [][\A c \in Conns :
          ClearTimeoutsIn(calls', c) # {} =>
            timer[c].state = "armed" /\ timer'[c].state = "cleared"]_vars

\* C27, amended: the pending deadline is cancelled at most once, by a
\* clearTimeout call of the successful authentication or of the close
\* handler, whichever comes first; it is pending neither in an
\* authenticated session nor in a destroyed one; a clearTimeout call on a
\* timer that is no longer pending (the close handler calls it whenever a
\* timer was created) changes nothing.
C27_PendingDeadlineCancelledAtMostOnce ==
  /\ [](\A c \in Conns :
          (session[c] = "destroyed" \/ authenticated[c]) => timer[c].state # "armed")
  /\ [][\A c \in Conns :
          /\ timer[c].state = "cleared" => timer'[c].state = "cleared"
          /\ (timer[c].state = "armed" /\ timer'[c].state = "cleared") =>
               /\ Cardinality(ClearTimeoutsIn(calls', c)) = 1
               /\ \/ ~authenticated[c] /\ authenticated'[c]
                  \/ session[c] = "live" /\ session'[c] = "destroyed"
          /\ (ClearTimeoutsIn(calls', c) # {} /\ timer[c].state # "armed") =>
               timer'[c] = timer[c]]_vars

\* The close handler has called clearTimeout on the deadline timer of a
\* session whose successful authentication had cancelled it already.
C27_Witness ==
  \E c \in Conns :
    /\ session[c] = "destroyed"
    /\ authenticated[c]
    /\ timer[c].state = "cleared"
    /\ ClearTimeoutsIn(calls, c) # {}

\* C28: a PTY data event makes its callback send one 'output' envelope
\* with the data as emitted, and the PTY exit event makes its callback send
\* one 'exit' envelope with the exit code; when ws.send throws, the
\* callback logs the failure; no exception ever leaves a callback.
C28_PtyEventsAreForwardedSafely ==
  /\ [](\A i \in 1..Len(calls) : calls[i].api # "throw")
  /\ [][\A c \in Conns, ok \in BOOLEAN :
          /\ \A data \in PtyOutputs :
               (ptyState[c].state = "running" /\ PtyData(c, data, ok)) =>
                 /\ {calls'[i] : i \in SendsIn(calls')} = {SendOutput(c, data)}
                 /\ Cardinality(SendsIn(calls')) = 1
                 /\ ok \/ \E i \in 1..Len(calls') : calls'[i].api = "log"
          /\ \A exitCode \in ExitCodes :
               (ptyState[c].state = "running" /\ PtyExit(c, exitCode, ok)) =>
                 /\ {calls'[i] : i \in SendsIn(calls')} = {SendExit(c, exitCode)}
                 /\ Cardinality(SendsIn(calls')) = 1
                 /\ ok \/ \E i \in 1..Len(calls') : calls'[i].api = "log"]_vars

\* A PTY callback has run on a WebSocket that was no longer open, its
\* ws.send has thrown, and the failure has been logged.
C28_Witness ==
  \E c \in Conns :
    /\ wsState[c] # "open"
    /\ Len(calls) = 2
    /\ IsPtyEnvelope(calls[1])
    /\ calls[2].api = "log"

\* The names of the operations of a sequence of buffer operations.
OpNames(ops) == [i \in 1..Len(ops) |-> ops[i].op]

\* C29: the comparison of a candidate token with the secret executes the
\* same sequence of operations whatever the candidate's content and
\* length: the operations of a call secureTokenCompare(candidate, secret)
\* are those of the call on any other string candidate and the same secret.
C29_SameOperationsForEveryCandidate ==
  (/\ pureCall.fn = "secureTokenCompare"
   /\ pureCall.outcome # "pending"
   /\ pureCall.args[1].t = "string"
   /\ pureCall.args[2].t = "string") =>
    \A other \in {a \in SecureTokenCompareArgs : a.t = "string"} :
      OpNames(secureTokenCompareOps(other, pureCall.args[2])) =
        OpNames(pureCall.result)

\* C30: activeConnections always equals the number of live sessions (those
\* admitted whose close event has not been handled) and lies between 0 and
\* MAX_CONNECTIONS; the admission of a session adds one to it, the handling
\* of a session's close event takes one from it, a rejected connection
\* leaves it as it was; and a connection from an allowed origin that
\* arrives while fewer than MAX_CONNECTIONS sessions are live, be it after
\* the destruction of earlier sessions, is admitted.
C30_CountEqualsLiveSessions ==
  /\ [](/\ activeConnections = Cardinality(Live)
        /\ activeConnections \in 0..MAX_CONNECTIONS)
  /\ [][\A c \in Conns :
          /\ (session[c] = "none" /\ session'[c] = "live") =>
               activeConnections' = activeConnections + 1
          /\ (session[c] = "live" /\ session'[c] = "destroyed") =>
               activeConnections' = activeConnections - 1
          /\ (wsState[c] = "idle" /\ wsState'[c] = "closing") =>
               activeConnections' = activeConnections
          /\ \A o \in AllowedOrigins, a \in Addresses :
               (/\ wsState[c] = "idle"
                /\ wsState'[c] # "idle"
                /\ Cardinality({d \in Conns : session[d] = "destroyed"}) > 0
                /\ Cardinality(Live) < MAX_CONNECTIONS
                /\ Connect(c, o, a)) => session'[c] = "live"]_vars

\* MAX_CONNECTIONS sessions are live, the latest of them admitted into the
\* slot that the destruction of an earlier session had released.
C30_Witness ==
  /\ activeConnections = MAX_CONNECTIONS
  /\ Cardinality(Live) = MAX_CONNECTIONS
  /\ \E c \in Conns : session[c] = "destroyed"

\* The PTY callbacks leave the session's flag, handle, deadline timer and
\* the connection count alone, and call nothing but ws.send (and log).
PtyCallbacksOnlySend ==
  \A c \in Conns, ok \in BOOLEAN :
    /\ \A data \in PtyOutputs :
         (ptyState[c].state = "running" /\ calls' # <<>> /\ PtyData(c, data, ok)) =>
           /\ UNCHANGED <<authenticated, ptyProcess, authTimeout, timer,
                          activeConnections>>
           /\ \A i \in 1..Len(calls') : calls'[i].api \in {"ws.send", "log"}
    /\ \A exitCode \in ExitCodes :
         (ptyState[c].state = "running" /\ calls' # <<>> /\ PtyExit(c, exitCode, ok)) =>
           /\ UNCHANGED <<authenticated, ptyProcess, authTimeout, timer,
                          activeConnections>>
           /\ \A i \in 1..Len(calls') : calls'[i].api \in {"ws.send", "log"}

\* C31, as stated: the PTY callbacks only send; the PTY handle of a
\* session is set once, while the first valid resize is handled, and is
\* changed otherwise only by the close handler.
C31_HandleSetByFirstValidResize ==
  [][/\ PtyCallbacksOnlySend
     /\ \A c \in Conns :
          /\ (ptyProcess'[c] # ptyProcess[c] \/ ptyCreated'[c] # ptyCreated[c]) =>
               IF ptyProcess[c] = "null"
               THEN /\ spawnCalls[c] = 0 /\ ptyCreated[c] = 0
                    /\ IsResize(received')
               ELSE ptyProcess'[c] = "null" /\ session'[c] = "destroyed"]_vars

\* C31, amended: the PTY callbacks only send; the PTY handle of a session
\* is set at most once, while a valid resize is handled by a session that
\* holds no PTY (the first one whose spawn returns), and is changed
\* otherwise only by the close handler, which clears it.
C31_HandleSetOnceByValidResize ==
  [][/\ PtyCallbacksOnlySend
     /\ \A c \in Conns :
          /\ (ptyProcess'[c] # ptyProcess[c] \/ ptyCreated'[c] # ptyCreated[c]) =>
               IF ptyProcess[c] = "null"
               THEN /\ ptyCreated[c] = 0
                    /\ IsResize(received')
                    /\ \E i \in 1..Len(calls') :
                         /\ calls'[i].api = "pty.spawn" /\ calls'[i].kind = "ok"
                         /\ calls'[i].n1 \in 1..MAX_COLS
                         /\ calls'[i].n2 \in 1..MAX_ROWS
               ELSE ptyProcess'[c] = "null" /\ session'[c] = "destroyed"]_vars

\* The exit callback of a PTY that a second spawn had created has run: the
\* session still holds the handle.
C31_Witness ==
  \E c \in Conns :
    /\ calls # <<>> /\ calls[1].api = "ws.send" /\ calls[1].kind = "exit"
    /\ ptyProcess[c] = "pty"
    /\ spawnCalls[c] = 2
    /\ ptyState[c].state = "exited"

\* C32: when pty.spawn throws while an authenticated session without a
\* PTY handles a valid resize, the only thing sent is the generic error
\* envelope, no close is requested, the WebSocket and the session stay as
\* they were, the session stays authenticated and without a PTY handle,
\* and the connection count is unchanged.
C32_SpawnFailureIsNotFatal ==
  [][\A c \in Live, m \in ValidResizeMessages :
       (/\ authenticated[c]
        /\ ptyProcess[c] = "null"
        /\ received' = Kind(m)
        /\ OnMessage(c, m, FALSE)) =>
         /\ calls' = <<PtySpawn(c, ColsOf(m), RowsOf(m), "throws"), SendError(c)>>
         /\ wsState'[c] = wsState[c]
         /\ closeCalls'[c] = closeCalls[c]
         /\ session'[c] = "live"
         /\ authenticated'[c]
         /\ ptyProcess'[c] = "null"
         /\ ptyCreated'[c] = ptyCreated[c]
         /\ activeConnections' = activeConnections]_vars

\* An open, authenticated session has answered a spawn that threw.
C32_Witness ==
  \E c \in Live :
    /\ wsState[c] = "open"
    /\ authenticated[c]
    /\ ptyProcess[c] = "null"
    /\ Len(calls) = 2
    /\ calls[1].api = "pty.spawn" /\ calls[1].kind = "throws"
    /\ calls[2] = SendError(c)

\* The auth deadline timer of session c fires in this step.
Fires(c) == timer[c].state = "armed" /\ timer'[c].state = "fired"

\* C33, as stated: when the auth deadline timer of a session fires after
\* the session has authenticated, or after its connection has been closed
\* (by the server or for good), the callback calls nothing and changes
\* nothing.
C33_LateTimerIsNoOp ==
  [][\A c \in Conns :
       (Fires(c) /\ (authenticated[c] \/ wsState[c] # "open")) =>
         /\ calls' = <<>>
         /\ UNCHANGED <<wsState, closeCalls, session, authenticated, authTimeout,
                        ptyProcess, ptyState, activeConnections>>]_vars

\* C33, amended: the auth deadline timer never fires in a session that
\* has authenticated or whose close event has been handled, both having
\* cancelled it; when it fires after the server has requested the close of
\* an unauthenticated session, the callback calls ws.close(4001,
\* 'Authentication timeout') once more, which leaves the WebSocket closing
\* and changes no session state.
C33_LateTimerChangesNoSessionState ==
  /\ [](\A c \in Conns :
          (authenticated[c] \/ session[c] = "destroyed") => timer[c].state # "armed")
  /\ [][\A c \in Conns :
          Fires(c) =>
            /\ ~authenticated[c] /\ session[c] = "live"
            /\ calls' = <<WsClose(c, CLOSE_UNAUTHORIZED, "Authentication timeout")>>
            /\ wsState[c] = "closing" => wsState'[c] = "closing"
            /\ UNCHANGED <<session, authenticated, authTimeout, ptyProcess,
                           ptyState, activeConnections>>]_vars

\* The timer has fired on a session whose close the server had requested
\* for a token mismatch.
C33_Witness ==
  \E c \in Live :
    /\ timer[c].state = "fired"
    /\ wsState[c] = "closing"
    /\ <<CLOSE_UNAUTHORIZED, "Unauthorized">> \in closeCalls[c]
    /\ calls = <<WsClose(c, CLOSE_UNAUTHORIZED, "Authentication timeout")>>

\* The server has requested the close of session c for a token mismatch
\* or for the expiry of the auth deadline.
CloseRequested(c) ==
  \/ <<CLOSE_UNAUTHORIZED, "Unauthorized">> \in closeCalls[c]
  \/ <<CLOSE_UNAUTHORIZED, "Authentication timeout">> \in closeCalls[c]

\* C34: with a secret configured, once the server has requested the close
\* of a session for a token mismatch or for the expiry of the deadline, no
\* later step sets the session's authenticated flag, sends it a
\* 'connected' envelope, or invokes the spawn primitive for it.
C34_NoAuthAfterCloseRequested ==
  [][\A c \in Conns :
       (TokenRequired /\ CloseRequested(c)) =>
         /\ authenticated'[c] = authenticated[c]
         /\ ConnectedIn(calls', c) = 0
         /\ spawnCalls'[c] = spawnCalls[c]]_vars

\* C35: with a secret configured, every envelope the server sends goes to
\* a session that is authenticated when it is sent; whatever payload a
\* session that is not authenticated receives, nothing is sent to it.
C35_NothingSentBeforeAuthentication ==
  TokenRequired =>
    \A i \in 1..Len(calls) :
      calls[i].api = "ws.send" => authenticated[calls[i].conn]

\* The PTYs of session c that were created and not killed.
UnkilledPtys(c) == ptyCreated[c] - (IF ptyState[c].killed THEN 1 ELSE 0)

KillsIn(cs, c) == {i \in 1..Len(cs) : cs[i] = PtyKill(c)}

\* C36: only a live session has a PTY that was created and not killed,
\* and it has one at most, so that these PTYs are never more than the
\* active connections, and these never more than MAX_CONNECTIONS; kill is
\* called on a PTY only by the close handler of its session, once, and a
\* session that created a PTY has it killed when its close is handled.
C36_NoPtyOutlivesItsSession ==
  /\ [](/\ \A c \in Conns : UnkilledPtys(c) <= (IF c \in Live THEN 1 ELSE 0)
        /\ Cardinality({c \in Conns : UnkilledPtys(c) > 0}) <= activeConnections
        /\ activeConnections <= MAX_CONNECTIONS)
  /\ [][\A c \in Conns :
          /\ (KillsIn(calls', c) # {} \/ ptyState'[c].killed # ptyState[c].killed) =>
               /\ Cardinality(KillsIn(calls', c)) = 1
               /\ session[c] = "live" /\ session'[c] = "destroyed"
               /\ UnkilledPtys(c) = 1 /\ UnkilledPtys(c)' = 0
          /\ (session[c] = "live" /\ session'[c] = "destroyed" /\ ptyCreated[c] > 0) =>
               Cardinality(KillsIn(calls', c)) = 1]_vars

\* MAX_CONNECTIONS sessions are live and hold a PTY each, and the PTY of a
\* session that was destroyed has been killed.
C36_Witness ==
  /\ Cardinality({c \in Live : UnkilledPtys(c) = 1}) = MAX_CONNECTIONS
  /\ \E c \in Conns :
       session[c] = "destroyed" /\ ptyCreated[c] = 1 /\ ptyState[c].killed

\* C37: once the PTY of a session has exited, no step calls write or
\* resize on it.
C37_ExitedPtyIsLeftAlone ==
  [][\A c \in Conns :
       ptyState[c].state = "exited" =>
         \A i \in 1..Len(calls') :
           calls'[i].conn = c => calls'[i].api \notin {"pty.write", "pty.resize"}]_vars

\* C38: a message that fails for a parse failure, an unknown type,
\* invalid resize dimensions or an invalid input, and is answered, is
\* answered with the generic error envelope and nothing else: no PTY call
\* is made, and the session's flag, PTY handle and PTY, deadline timer,
\* WebSocket and the connection count are as before.  (No such message
\* reaches pty.spawn, whose outcome is the third argument of OnMessage.)
C38_ErrorAnswerChangesNothing ==
  [][(calls' # <<>> /\ received' # NoMessage) =>
      \A c \in Live, m \in FailingMessages :
       (received' = Kind(m) /\ OnMessage(c, m, TRUE)) =>
         /\ calls' = <<SendError(c)>>
         /\ UNCHANGED <<authenticated, ptyProcess, ptyState, spawnCalls, ptyCreated,
                        timer, authTimeout, activeConnections, session, wsState,
                        closeCalls>>]_vars

\* An authenticated session holding a running PTY of 80x24 has answered
\* an invalid input with the error envelope.
C38_Witness ==
  \E c \in Live :
    /\ calls = <<SendError(c)>>
    /\ received = [parse |-> "object", type |-> "input"]
    /\ authenticated[c]
    /\ wsState[c] = "open"
    /\ ptyProcess[c] = "pty"
    /\ ptyState[c].state = "running"

\* The sockets of the client that are connecting or open.
LiveSockets ==
  {k \in 1..Len(client.sockets) :
     client.sockets[k].readyState \in {"CONNECTING", "OPEN"}}

\* C39: at no time are two WebSocket objects of the browser client
\* connecting or open.
C39_AtMostOneClientSocket ==
  Cardinality(LiveSockets) <= 1

\* C40: when the page was loaded with a token in its URL, the first
\* message the client sends through any of its sockets is the auth message:
\* no socket sends a resize first.
C40_AuthBeforeFirstResize ==
  client.urlToken # "absent" =>
    \A k \in 1..Len(client.sockets) :
      client.sockets[k].sent # <<>> => client.sockets[k].sent[1] = "auth"
====
